---- MODULE Spec2Model ----
(***************************************************************************)
(* Gamepicker: match filter, aggregator, deviation controller, Poisson     *)
(* scoring distribution, correct-score grid, market summaries and the      *)
(* asynchronous generateBreakdown request handling of src/app.js.          *)
(*                                                                         *)
(* Numbers.  Match fields are non-negative integers; an absent field       *)
(* (null / undefined) is encoded by NULL.  An average is the exact         *)
(* rational <<sum, count>>, the absent average is the empty tuple.         *)
(* Instants are hours since day 0, 00:00 UTC.                              *)
(***************************************************************************)
EXTENDS Integers, Sequences, FiniteSets, TLC

VARIABLES
  \* match filter and aggregator (filterMatches, computeAggregates)
  matches, fixtureDateISO, windowDays, tzone, matchesInWindow, role, agg, aggPc,
  \* deviation controller (applyDeviationControl): the two latest calls
  lastCall, prevCall,
  \* scoring distribution, grid and market summaries
  lambdaHome, lambdaAway, homePoisson, awayPoisson, correctScoreGrid,
  summaryMarkets, summaryCard, topScores, gridPc,
  \* page state of the asynchronous request handling
  fixturesIndex, leagueSelect, fixtureSelect, windowSelect, statusEl, tablesEl,
  leagueMatchesCache, inflight, nextId, lastIssued, outcome, serverVersion,
  \* the three aggregates of a request and its predictions (computePredictions)
  homeAgg, awayAgg, leagueAgg, predicted, predPc,
  \* the CSV row read by the data build and the match record made of it
  csvRow, normalized, ingestPc

aggVars  == <<matches, fixtureDateISO, windowDays, tzone, matchesInWindow, role, agg, aggPc>>
devVars  == <<lastCall, prevCall>>
gridVars == <<lambdaHome, lambdaAway, homePoisson, awayPoisson, correctScoreGrid,
              summaryMarkets, summaryCard, topScores, gridPc>>
uiVars   == <<fixturesIndex, leagueSelect, fixtureSelect, windowSelect, statusEl, tablesEl,
              leagueMatchesCache, inflight, nextId, lastIssued, outcome, serverVersion>>
predVars == <<homeAgg, awayAgg, leagueAgg, predicted, predPc>>
ingestVars == <<csvRow, normalized, ingestPc>>
vars     == <<aggVars, devVars, gridVars, uiVars, predVars, ingestVars>>

(***************************************************************************)
(* Bounds of the model                                                     *)
(***************************************************************************)
MaxDay       == 10   \* calendar days 0..MaxDay
MaxFilterLen == 2    \* length of the collection handed to filterMatches
MaxMatches   == 3    \* length of the collection handed to computeAggregates
DstOnDay     == 4    \* day on which the summer-time zones switch to DST
DstOffDay    == 8    \* day on which they switch back

\* absent numeric value (null, undefined or NaN), outside the range of every number used
NULL == -1000000

Abs(x) == IF x < 0 THEN -x ELSE x
Max(a, b) == IF a >= b THEN a ELSE b
Min(a, b) == IF a <= b THEN a ELSE b

RECURSIVE SumOver(_, _)
\* sum of f[x] over the finite set S
SumOver(f, S) ==
  IF S = {} THEN 0
  ELSE LET x == CHOOSE y \in S : TRUE IN f[x] + SumOver(f, S \ {x})

\* a const of the source: the one element of S, computed once
Const(S) == CHOOSE value \in S : TRUE

(***************************************************************************)
(* isValidNumber (app.js 239-241)                                          *)
(***************************************************************************)
isValidNumber(value) == value # NULL

(***************************************************************************)
(* Dates.  A dateISO is a day number, NoDate (null, undefined or "") or    *)
(* BadDate (a string new Date() cannot parse).  new Date("YYYY-MM-DD") is  *)
(* midnight UTC of that day; getDate/setDate work in the local time zone   *)
(* of the browser, an input of the environment.                            *)
(***************************************************************************)
NoDate  == -1
BadDate == -2

NullDate    == [kind |-> "null", t |-> 0]
InvalidDate == [kind |-> "invalid", t |-> 0]
DateAt(t)   == [kind |-> "date", t |-> t]

\* toDate (app.js 153-155)
toDate(value) ==
  IF value = NoDate THEN NullDate
  ELSE IF value = BadDate THEN InvalidDate
  ELSE DateAt(value * 24)

\* A zone: standard offset in hours and the UTC instants between which DST applies.
ZoneUTC     == [std |-> 0, dstOn |-> 0, dstOff |-> 0]
ZoneLondon  == [std |-> 0, dstOn |-> DstOnDay * 24 + 1, dstOff |-> DstOffDay * 24 + 1]
ZoneNewYork == [std |-> -5, dstOn |-> DstOnDay * 24 + 7, dstOff |-> DstOffDay * 24 + 6]
Zones       == {ZoneUTC, ZoneLondon, ZoneNewYork}

InDst(z, t) == z.dstOn <= t /\ t < z.dstOff
ZoneOffset(z, t) == IF InDst(z, t) THEN z.std + 1 ELSE z.std

\* local wall-clock hours of the UTC instant t
LocalOf(z, t) == t + ZoneOffset(z, t)

\* UTC instant of the local wall-clock time w; a wall time skipped or repeated by a
\* transition is read with the offset in force before the transition
UtcOfLocal(z, w) ==
  IF InDst(z, w - z.std - 1) THEN w - z.std - 1 ELSE w - z.std

\* Date.prototype.setDate(getDate() - days): same local time of day, days earlier
SetDateBack(z, t, days) ==
  LET w == LocalOf(z, t) IN UtcOfLocal(z, ((w \div 24) - days) * 24 + (w % 24))

\* filterMatches giving back the whole collection when there is no fixture date
filterMatchesKeepAll(ms, dateISO, days, z) ==
  LET fixtureDate == toDate(dateISO) IN
  IF fixtureDate.kind = "null" THEN ms
  ELSE IF fixtureDate.kind = "invalid" THEN <<>>
  ELSE
    LET windowStart == SetDateBack(z, fixtureDate.t, days)
        Keep(match) ==
          LET matchDate == toDate(match.dateISO) IN
            /\ matchDate.kind = "date"
            /\ matchDate.t >= windowStart
            /\ matchDate.t < fixtureDate.t
    IN SelectSeq(ms, Keep)

\* filterMatches (app.js 226-237)
filterMatches(ms, dateISO, days, z) ==
  LET fixtureDate == toDate(dateISO) IN
  IF fixtureDate.kind = "null" THEN <<>>
  ELSE IF fixtureDate.kind = "invalid" THEN <<>>   \* every comparison with NaN is false
  ELSE
    LET windowStart == SetDateBack(z, fixtureDate.t, days)
        Keep(match) ==
          LET matchDate == toDate(match.dateISO) IN
            /\ matchDate.kind = "date"
            /\ matchDate.t >= windowStart
            /\ matchDate.t < fixtureDate.t
    IN SelectSeq(ms, Keep)

(***************************************************************************)
(* computeAggregates (app.js 243-308)                                      *)
(***************************************************************************)
MetricKeys ==
  <<"FTHG", "HS", "HST", "FTAG", "AS", "AST", "AvgH", "AvgD", "AvgA", "AvgOver25", "AvgUnder25">>
MetricKeySet == {MetricKeys[i] : i \in 1..Len(MetricKeys)}

NullAvg == <<>>

NoRole == [homeTeam |-> "", awayTeam |-> ""]

AggStart ==
  [metrics |-> [key \in MetricKeySet |-> [sum |-> 0, count |-> 0]],
   gamesPlayed |-> 0, homeWin |-> 0, draw |-> 0, awayWin |-> 0, over25 |-> 0, under25 |-> 0]

\* AggStep with an absent field averaged as a zero
AggStepAbsentAsZero(acc, match, r) ==
  IF r.homeTeam # "" /\ match.HomeTeam # r.homeTeam THEN acc
  ELSE IF r.awayTeam # "" /\ match.AwayTeam # r.awayTeam THEN acc
  ELSE
    LET both == isValidNumber(match.FTHG) /\ isValidNumber(match.FTAG)
        totalGoals == match.FTHG + match.FTAG
    IN [metrics |->
          [key \in MetricKeySet |->
             [sum |-> acc.metrics[key].sum + (IF isValidNumber(match[key]) THEN match[key] ELSE 0),
              count |-> acc.metrics[key].count + 1]],
        gamesPlayed |-> acc.gamesPlayed + 1,
        homeWin |-> acc.homeWin + (IF match.FTR = "H" THEN 1 ELSE 0),
        draw    |-> acc.draw + (IF match.FTR = "D" THEN 1 ELSE 0),
        awayWin |-> acc.awayWin + (IF match.FTR = "A" THEN 1 ELSE 0),
        over25  |-> acc.over25 + (IF both /\ 2 * totalGoals > 5 THEN 1 ELSE 0),
        under25 |-> acc.under25 + (IF both /\ 2 * totalGoals < 5 THEN 1 ELSE 0)]

\* AggStep counting a game as played only when its home goals are present
AggStepPlayedNeedsGoals(acc, match, r) ==
  IF r.homeTeam # "" /\ match.HomeTeam # r.homeTeam THEN acc
  ELSE IF r.awayTeam # "" /\ match.AwayTeam # r.awayTeam THEN acc
  ELSE
    LET both == isValidNumber(match.FTHG) /\ isValidNumber(match.FTAG)
        totalGoals == match.FTHG + match.FTAG
    IN [metrics |->
          [key \in MetricKeySet |->
             IF isValidNumber(match[key])
               THEN [sum |-> acc.metrics[key].sum + match[key],
                     count |-> acc.metrics[key].count + 1]
               ELSE acc.metrics[key]],
        gamesPlayed |-> acc.gamesPlayed + (IF isValidNumber(match.FTHG) THEN 1 ELSE 0),
        homeWin |-> acc.homeWin + (IF match.FTR = "H" THEN 1 ELSE 0),
        draw    |-> acc.draw + (IF match.FTR = "D" THEN 1 ELSE 0),
        awayWin |-> acc.awayWin + (IF match.FTR = "A" THEN 1 ELSE 0),
        over25  |-> acc.over25 + (IF both /\ 2 * totalGoals > 5 THEN 1 ELSE 0),
        under25 |-> acc.under25 + (IF both /\ 2 * totalGoals < 5 THEN 1 ELSE 0)]

\* AggStep with the over/under 2.5 totals taken when either goals field is present
AggStepEitherGoals(acc, match, r) ==
  IF r.homeTeam # "" /\ match.HomeTeam # r.homeTeam THEN acc
  ELSE IF r.awayTeam # "" /\ match.AwayTeam # r.awayTeam THEN acc
  ELSE
    LET both == isValidNumber(match.FTHG) \/ isValidNumber(match.FTAG)
        totalGoals == match.FTHG + match.FTAG
    IN [metrics |->
          [key \in MetricKeySet |->
             IF isValidNumber(match[key])
               THEN [sum |-> acc.metrics[key].sum + match[key],
                     count |-> acc.metrics[key].count + 1]
               ELSE acc.metrics[key]],
        gamesPlayed |-> acc.gamesPlayed + 1,
        homeWin |-> acc.homeWin + (IF match.FTR = "H" THEN 1 ELSE 0),
        draw    |-> acc.draw + (IF match.FTR = "D" THEN 1 ELSE 0),
        awayWin |-> acc.awayWin + (IF match.FTR = "A" THEN 1 ELSE 0),
        over25  |-> acc.over25 + (IF both /\ 2 * totalGoals > 5 THEN 1 ELSE 0),
        under25 |-> acc.under25 + (IF both /\ 2 * totalGoals < 5 THEN 1 ELSE 0)]

\* AggStep with the away-team filter compared against the home team
AggStepAwayOnHome(acc, match, r) ==
  IF r.homeTeam # "" /\ match.HomeTeam # r.homeTeam THEN acc
  ELSE IF r.awayTeam # "" /\ match.HomeTeam # r.awayTeam THEN acc
  ELSE
    LET both == isValidNumber(match.FTHG) /\ isValidNumber(match.FTAG)
        totalGoals == match.FTHG + match.FTAG
    IN [metrics |->
          [key \in MetricKeySet |->
             IF isValidNumber(match[key])
               THEN [sum |-> acc.metrics[key].sum + match[key],
                     count |-> acc.metrics[key].count + 1]
               ELSE acc.metrics[key]],
        gamesPlayed |-> acc.gamesPlayed + 1,
        homeWin |-> acc.homeWin + (IF match.FTR = "H" THEN 1 ELSE 0),
        draw    |-> acc.draw + (IF match.FTR = "D" THEN 1 ELSE 0),
        awayWin |-> acc.awayWin + (IF match.FTR = "A" THEN 1 ELSE 0),
        over25  |-> acc.over25 + (IF both /\ 2 * totalGoals > 5 THEN 1 ELSE 0),
        under25 |-> acc.under25 + (IF both /\ 2 * totalGoals < 5 THEN 1 ELSE 0)]

\* the body of matches.forEach (app.js 265-290)
AggStep(acc, match, r) ==
  IF r.homeTeam # "" /\ match.HomeTeam # r.homeTeam THEN acc
  ELSE IF r.awayTeam # "" /\ match.AwayTeam # r.awayTeam THEN acc
  ELSE
    LET both == isValidNumber(match.FTHG) /\ isValidNumber(match.FTAG)
        totalGoals == match.FTHG + match.FTAG
    IN [metrics |->
          [key \in MetricKeySet |->
             IF isValidNumber(match[key])
               THEN [sum |-> acc.metrics[key].sum + match[key],
                     count |-> acc.metrics[key].count + 1]
               ELSE acc.metrics[key]],
        gamesPlayed |-> acc.gamesPlayed + 1,
        homeWin |-> acc.homeWin + (IF match.FTR = "H" THEN 1 ELSE 0),
        draw    |-> acc.draw + (IF match.FTR = "D" THEN 1 ELSE 0),
        awayWin |-> acc.awayWin + (IF match.FTR = "A" THEN 1 ELSE 0),
        over25  |-> acc.over25 + (IF both /\ 2 * totalGoals > 5 THEN 1 ELSE 0),
        under25 |-> acc.under25 + (IF both /\ 2 * totalGoals < 5 THEN 1 ELSE 0)]

RECURSIVE AggLoop(_, _, _, _)
AggLoop(ms, i, r, acc) ==
  IF i > Len(ms) THEN acc ELSE AggLoop(ms, i + 1, r, AggStep(acc, ms[i], r))

\* Average with 0 for a key without a value
AverageZeroDefault(m) == IF m.count > 0 THEN <<m.sum, m.count>> ELSE <<0, 1>>

\* count > 0 ? sum / count : null (app.js 296)
Average(m) == IF m.count > 0 THEN <<m.sum, m.count>> ELSE NullAvg

computeAggregates(ms, r) ==
  LET acc == AggLoop(ms, 1, r, AggStart) IN
  [averages |-> [key \in MetricKeySet |-> Average(acc.metrics[key])],
   totals |-> [gamesPlayed |-> acc.gamesPlayed, homeWin |-> acc.homeWin,
               draw |-> acc.draw, awayWin |-> acc.awayWin,
               over25 |-> acc.over25, under25 |-> acc.under25]]

EmptyAgg == computeAggregates(<<>>, NoRole)

\* equality of two averages as numbers
AvgEq(a, b) ==
  IF a = NullAvg \/ b = NullAvg THEN a = b ELSE a[1] * b[2] = b[1] * a[2]

\* clampNonNeg without the floor at 0
clampNonNegNoFloor(value) == IF ~isValidNumber(value) THEN 0 ELSE value

(***************************************************************************)
(* clampNonNeg (app.js 73-78)                                              *)
(***************************************************************************)
clampNonNeg(value) == IF ~isValidNumber(value) THEN 0 ELSE Max(0, value)

(***************************************************************************)
(* applyDeviationControl (app.js 80-103).  The blended figure and the      *)
(* deviation are in thousandths, the multiplier in thousandths, the        *)
(* returned lambda in millionths.                                          *)
(***************************************************************************)
\* the band table with the top band entered only above 2.0
DeviationMultiplierStrictTop(delta) ==
  IF delta > 2000 THEN 750
  ELSE IF delta >= 1750 THEN 800
  ELSE IF delta >= 1500 THEN 850
  ELSE IF delta >= 1250 THEN 900
  ELSE IF delta >= 1000 THEN 900
  ELSE IF delta >= 750 THEN 950
  ELSE IF delta >= 500 THEN 975
  ELSE IF delta >= 250 THEN 990
  ELSE IF delta <= -2000 THEN 1250
  ELSE IF delta <= -1750 THEN 1200
  ELSE IF delta <= -1500 THEN 1150
  ELSE IF delta <= -1250 THEN 1100
  ELSE IF delta <= -1000 THEN 1100
  ELSE IF delta <= -750 THEN 1050
  ELSE IF delta <= -500 THEN 1025
  ELSE IF delta <= -250 THEN 1010
  ELSE 1000

\* the band table with the multiplier of the band (-0.75, -0.5] below 1
DeviationMultiplierSignSlip(delta) ==
  IF delta >= 2000 THEN 750
  ELSE IF delta >= 1750 THEN 800
  ELSE IF delta >= 1500 THEN 850
  ELSE IF delta >= 1250 THEN 900
  ELSE IF delta >= 1000 THEN 900
  ELSE IF delta >= 750 THEN 950
  ELSE IF delta >= 500 THEN 975
  ELSE IF delta >= 250 THEN 990
  ELSE IF delta <= -2000 THEN 1250
  ELSE IF delta <= -1750 THEN 1200
  ELSE IF delta <= -1500 THEN 1150
  ELSE IF delta <= -1250 THEN 1100
  ELSE IF delta <= -1000 THEN 1100
  ELSE IF delta <= -750 THEN 1050
  ELSE IF delta <= -500 THEN 975
  ELSE IF delta <= -250 THEN 1010
  ELSE 1000

\* the band table (app.js 83-100)
DeviationMultiplier(delta) ==
  IF delta >= 2000 THEN 750
  ELSE IF delta >= 1750 THEN 800
  ELSE IF delta >= 1500 THEN 850
  ELSE IF delta >= 1250 THEN 900
  ELSE IF delta >= 1000 THEN 900
  ELSE IF delta >= 750 THEN 950
  ELSE IF delta >= 500 THEN 975
  ELSE IF delta >= 250 THEN 990
  ELSE IF delta <= -2000 THEN 1250
  ELSE IF delta <= -1750 THEN 1200
  ELSE IF delta <= -1500 THEN 1150
  ELSE IF delta <= -1250 THEN 1100
  ELSE IF delta <= -1000 THEN 1100
  ELSE IF delta <= -750 THEN 1050
  ELSE IF delta <= -500 THEN 1025
  ELSE IF delta <= -250 THEN 1010
  ELSE 1000

applyDeviationControl(xGoalsByForm, goalsVAvg) ==
  LET base == IF isValidNumber(xGoalsByForm) THEN xGoalsByForm ELSE 0
      delta == IF isValidNumber(goalsVAvg) THEN goalsVAvg ELSE 0
      multiplier == DeviationMultiplier(delta)
  IN [base |-> base, delta |-> delta, multiplier |-> multiplier,
      lambda |-> clampNonNeg(base * multiplier)]

(***************************************************************************)
(* poissonProbabilities (app.js 105-122).  A lambda is given in quarters   *)
(* (lambda = q / 4); probabilities are fixed-point numbers with ONE        *)
(* standing for 1, every product truncated to that precision.              *)
(***************************************************************************)
ONE == 10000
\* e^(-1/4) in units of 1/ONE
ExpQuarter == 7788

RECURSIVE ExpNegFrom(_, _)
\* v * e^(-q/4), a quarter at a time; nothing is left to multiply once v is 0
ExpNegFrom(v, q) ==
  IF q = 0 \/ v = 0 THEN v ELSE ExpNegFrom((v * ExpQuarter) \div ONE, q - 1)

\* Math.exp(-q/4)
ExpNeg(q) == ExpNegFrom(ONE, q)

RECURSIVE PoissonTermNextIndex(_, _)
\* the value of `current` with each pass dividing by k + 1
PoissonTermNextIndex(q, k) ==
  IF k = 0 THEN ExpNeg(q) ELSE (PoissonTermNextIndex(q, k - 1) * q) \div (4 * (k + 1))

RECURSIVE PoissonTerm(_, _)
\* the value of `current` after the k-th pass of the loop (app.js 110-118)
PoissonTerm(q, k) ==
  IF k = 0 THEN ExpNeg(q) ELSE (PoissonTerm(q, k - 1) * q) \div (4 * k)

\* poissonProbabilities with P(0) left out of the cumulative sum
poissonProbabilitiesNoFirst(lambda, maxGoals) ==
  LET safeLambda == clampNonNeg(lambda)
      probs == [k \in 0..maxGoals |-> PoissonTerm(safeLambda, k)]
      cumulative == SumOver(probs, 1..maxGoals)
  IN [probs |-> probs, probs9Plus |-> Max(0, ONE - cumulative)]

poissonProbabilities(lambda, maxGoals) ==
  LET safeLambda == clampNonNeg(lambda)
      probs == [k \in 0..maxGoals |-> PoissonTerm(safeLambda, k)]
      cumulative == SumOver(probs, 0..maxGoals)
  IN [probs |-> probs, probs9Plus |-> Max(0, ONE - cumulative)]

\* the 11 probabilities of a distribution, tail last (app.js 966-967)
WithTail(dist) ==
  LET n == Cardinality(DOMAIN dist.probs) IN
  [k \in 0..n |-> IF k = n THEN dist.probs9Plus ELSE dist.probs[k]]

DistSum(dist) == SumOver(WithTail(dist), DOMAIN WithTail(dist))

(***************************************************************************)
(* buildCorrectScoreGrid (app.js 124-151).  Cells are in units of          *)
(* 1/(ONE*ONE).                                                            *)
(***************************************************************************)
\* GridCell with the home tail used for the away tail column
GridCellHomeTail(homeProbs, awayProbs, home9Plus, away9Plus, i, j) ==
  LET size == Cardinality(DOMAIN homeProbs)
      homeProb == IF i = size THEN home9Plus ELSE homeProbs[i]
      awayProb == IF j = size THEN home9Plus ELSE awayProbs[j]
  IN homeProb * awayProb

GridCell(homeProbs, awayProbs, home9Plus, away9Plus, i, j) ==
  LET size == Cardinality(DOMAIN homeProbs)
      homeProb == IF i = size THEN home9Plus ELSE homeProbs[i]
      awayProb == IF j = size THEN away9Plus ELSE awayProbs[j]
  IN homeProb * awayProb

RECURSIVE OutcomeInnerDrawAsHome(_, _, _, _, _)
\* the inner loop with the diagonal counted as a home win
OutcomeInnerDrawAsHome(grid, size, i, j, acc) ==
  IF j > size THEN acc
  ELSE
    LET value == grid[i][j] IN
    OutcomeInnerDrawAsHome(grid, size, i, j + 1,
      IF i >= j THEN [acc EXCEPT !.homeWin = @ + value]
      ELSE IF i = j THEN [acc EXCEPT !.draw = @ + value]
      ELSE [acc EXCEPT !.awayWin = @ + value])

RECURSIVE OutcomeInner(_, _, _, _, _)
\* the inner loop over j (app.js 134-141), accumulating the outcome sums
OutcomeInner(grid, size, i, j, acc) ==
  IF j > size THEN acc
  ELSE
    LET value == grid[i][j] IN
    OutcomeInner(grid, size, i, j + 1,
      IF i > j THEN [acc EXCEPT !.homeWin = @ + value]
      ELSE IF i = j THEN [acc EXCEPT !.draw = @ + value]
      ELSE [acc EXCEPT !.awayWin = @ + value])

\* the outer loop over i (app.js 131-143): the sums of all rows
OutcomeLoop(grid, size) ==
  LET rows == [i \in 0..size |->
                 OutcomeInner(grid, size, i, 0, [homeWin |-> 0, draw |-> 0, awayWin |-> 0])]
  IN [homeWin |-> SumOver([i \in 0..size |-> rows[i].homeWin], 0..size),
      draw    |-> SumOver([i \in 0..size |-> rows[i].draw], 0..size),
      awayWin |-> SumOver([i \in 0..size |-> rows[i].awayWin], 0..size)]

\* buildCorrectScoreGrid with the cell of both tails counted as a home win
buildCorrectScoreGridTailsToHome(homeProbs, awayProbs, home9Plus, away9Plus) ==
  LET size == Cardinality(DOMAIN homeProbs)
      grid == [i \in 0..size |-> [j \in 0..size |->
                 GridCell(homeProbs, awayProbs, home9Plus, away9Plus, i, j)]]
      acc == OutcomeLoop(grid, size)
  IN [grid |-> grid, homeWin |-> acc.homeWin + grid[size][size],
      draw |-> acc.draw - grid[size][size], awayWin |-> acc.awayWin]

buildCorrectScoreGrid(homeProbs, awayProbs, home9Plus, away9Plus) ==
  LET size == Cardinality(DOMAIN homeProbs)
      grid == [i \in 0..size |-> [j \in 0..size |->
                 GridCell(homeProbs, awayProbs, home9Plus, away9Plus, i, j)]]
      acc == OutcomeLoop(grid, size)
  IN [grid |-> grid, homeWin |-> acc.homeWin, draw |-> acc.draw, awayWin |-> acc.awayWin]

\* 1 in grid units
GridOne == ONE * ONE

GridCells(grid) == {<<i, j>> : i \in DOMAIN grid, j \in DOMAIN grid}

\* sum of the grid cells whose index pair is in the set C
SumCells(grid, C) ==
  LET rowSum == [i \in DOMAIN grid |->
                   SumOver([j \in DOMAIN grid |-> IF <<i, j>> \in C THEN grid[i][j] ELSE 0],
                           DOMAIN grid)]
  IN SumOver(rowSum, DOMAIN grid)

GridTotal(grid) == SumCells(grid, GridCells(grid))

(***************************************************************************)
(* computeSummaryMarkets (app.js 789-819)                                  *)
(***************************************************************************)
goalValue(grid, index) == IF index = Cardinality(DOMAIN grid) - 1 THEN 10 ELSE index

MarketsStart ==
  [over15 |-> 0, under15 |-> 0, over25 |-> 0, under25 |-> 0, over35 |-> 0, under35 |-> 0,
   bttsYes |-> 0]

\* MarketsStep with the 2.5 line compared against 1.5 on its over side
MarketsStepWrongLine(grid, t, homeIndex, awayIndex) ==
  LET value == grid[homeIndex][awayIndex]
      totalGoals == goalValue(grid, homeIndex) + goalValue(grid, awayIndex)
      both == goalValue(grid, homeIndex) >= 1 /\ goalValue(grid, awayIndex) >= 1
  IN [over15  |-> t.over15 + (IF 2 * totalGoals > 3 THEN value ELSE 0),
      under15 |-> t.under15 + (IF 2 * totalGoals > 3 THEN 0 ELSE value),
      over25  |-> t.over25 + (IF 2 * totalGoals > 3 THEN value ELSE 0),
      under25 |-> t.under25 + (IF 2 * totalGoals > 5 THEN 0 ELSE value),
      over35  |-> t.over35 + (IF 2 * totalGoals > 7 THEN value ELSE 0),
      under35 |-> t.under35 + (IF 2 * totalGoals > 7 THEN 0 ELSE value),
      bttsYes |-> t.bttsYes + (IF both THEN value ELSE 0)]

\* MarketsStep with both-teams-to-score counted when either side scores
MarketsStepEitherScores(grid, t, homeIndex, awayIndex) ==
  LET value == grid[homeIndex][awayIndex]
      totalGoals == goalValue(grid, homeIndex) + goalValue(grid, awayIndex)
      both == goalValue(grid, homeIndex) >= 1 \/ goalValue(grid, awayIndex) >= 1
  IN [over15  |-> t.over15 + (IF 2 * totalGoals > 3 THEN value ELSE 0),
      under15 |-> t.under15 + (IF 2 * totalGoals > 3 THEN 0 ELSE value),
      over25  |-> t.over25 + (IF 2 * totalGoals > 5 THEN value ELSE 0),
      under25 |-> t.under25 + (IF 2 * totalGoals > 5 THEN 0 ELSE value),
      over35  |-> t.over35 + (IF 2 * totalGoals > 7 THEN value ELSE 0),
      under35 |-> t.under35 + (IF 2 * totalGoals > 7 THEN 0 ELSE value),
      bttsYes |-> t.bttsYes + (IF both THEN value ELSE 0)]

\* the body of the inner forEach (app.js 803-814); thresholds doubled to stay integral
MarketsStep(grid, t, homeIndex, awayIndex) ==
  LET value == grid[homeIndex][awayIndex]
      totalGoals == goalValue(grid, homeIndex) + goalValue(grid, awayIndex)
      both == goalValue(grid, homeIndex) >= 1 /\ goalValue(grid, awayIndex) >= 1
  IN [over15  |-> t.over15 + (IF 2 * totalGoals > 3 THEN value ELSE 0),
      under15 |-> t.under15 + (IF 2 * totalGoals > 3 THEN 0 ELSE value),
      over25  |-> t.over25 + (IF 2 * totalGoals > 5 THEN value ELSE 0),
      under25 |-> t.under25 + (IF 2 * totalGoals > 5 THEN 0 ELSE value),
      over35  |-> t.over35 + (IF 2 * totalGoals > 7 THEN value ELSE 0),
      under35 |-> t.under35 + (IF 2 * totalGoals > 7 THEN 0 ELSE value),
      bttsYes |-> t.bttsYes + (IF both THEN value ELSE 0)]

RECURSIVE MarketsInner(_, _, _, _)
\* row.forEach (app.js 803-814)
MarketsInner(grid, homeIndex, awayIndex, t) ==
  IF awayIndex >= Cardinality(DOMAIN grid) THEN t
  ELSE MarketsInner(grid, homeIndex, awayIndex + 1, MarketsStep(grid, t, homeIndex, awayIndex))

\* grid.forEach (app.js 802-815): the sums of all rows
MarketsLoop(grid) ==
  LET rows == [homeIndex \in DOMAIN grid |-> MarketsInner(grid, homeIndex, 0, MarketsStart)]
  IN [key \in DOMAIN MarketsStart |->
        SumOver([homeIndex \in DOMAIN grid |-> rows[homeIndex][key]], DOMAIN grid)]

\* computeSummaryMarkets with the two BTTS figures exchanged
computeSummaryMarketsBttsSwapped(grid) ==
  LET totals == MarketsLoop(grid) IN
  [over15 |-> totals.over15, under15 |-> totals.under15,
   over25 |-> totals.over25, under25 |-> totals.under25,
   over35 |-> totals.over35, under35 |-> totals.under35,
   bttsYes |-> Max(0, GridOne - totals.bttsYes), bttsNo |-> totals.bttsYes]

computeSummaryMarkets(grid) ==
  LET totals == MarketsLoop(grid) IN
  [over15 |-> totals.over15, under15 |-> totals.under15,
   over25 |-> totals.over25, under25 |-> totals.under25,
   over35 |-> totals.over35, under35 |-> totals.under35,
   bttsYes |-> totals.bttsYes, bttsNo |-> Max(0, GridOne - totals.bttsYes)]

(***************************************************************************)
(* buildTotalGoalsDistribution (app.js 965-978) and the figures            *)
(* buildSummaryCard displays (app.js 1028-1065)                            *)
(***************************************************************************)
buildTotalGoalsDistribution(hp, ap) ==
  LET homeProbs == WithTail(hp)
      awayProbs == WithTail(ap)
      totalLength == Cardinality(DOMAIN homeProbs) + Cardinality(DOMAIN awayProbs) - 1
      prod == [c \in (DOMAIN homeProbs) \X (DOMAIN awayProbs) |-> homeProbs[c[1]] * awayProbs[c[2]]]
  IN [s \in 0..(totalLength - 1) |->
        SumOver(prod, {c \in DOMAIN prod : c[1] + c[2] = s})]

\* buildSummaryCard without the cell 0-0 taken off the sum of row 0 and column 0
buildSummaryCardCornerTwice(predictions) ==
  LET totals == buildTotalGoalsDistribution(predictions.homePoisson, predictions.awayPoisson)
      over15 == Max(0, GridOne - (totals[0] + totals[1]))
      over25 == Max(0, GridOne - (totals[0] + totals[1] + totals[2]))
      over35 == Max(0, GridOne - (totals[0] + totals[1] + totals[2] + totals[3]))
      grid == predictions.correctScoreGrid.grid
      row0 == SumOver(grid[0], DOMAIN grid[0])
      col0 == SumOver([i \in DOMAIN grid |-> grid[i][0]], DOMAIN grid)
      bttsNo == Max(0, row0 + col0)
  IN [over15 |-> over15, under15 |-> Max(0, GridOne - over15),
      over25 |-> over25, under25 |-> Max(0, GridOne - over25),
      over35 |-> over35, under35 |-> Max(0, GridOne - over35),
      bttsYes |-> Max(0, GridOne - bttsNo), bttsNo |-> bttsNo]

buildSummaryCard(predictions) ==
  LET totals == buildTotalGoalsDistribution(predictions.homePoisson, predictions.awayPoisson)
      over15 == Max(0, GridOne - (totals[0] + totals[1]))
      over25 == Max(0, GridOne - (totals[0] + totals[1] + totals[2]))
      over35 == Max(0, GridOne - (totals[0] + totals[1] + totals[2] + totals[3]))
      grid == predictions.correctScoreGrid.grid
      row0 == SumOver(grid[0], DOMAIN grid[0])
      col0 == SumOver([i \in DOMAIN grid |-> grid[i][0]], DOMAIN grid)
      cell00 == grid[0][0]
      bttsNo == Max(0, row0 + col0 - cell00)
  IN [over15 |-> over15, under15 |-> Max(0, GridOne - over15),
      over25 |-> over25, under25 |-> Max(0, GridOne - over25),
      over35 |-> over35, under35 |-> Max(0, GridOne - over35),
      bttsYes |-> Max(0, GridOne - bttsNo), bttsNo |-> bttsNo]


(***************************************************************************)
(* The ranked cells of buildCorrectScoreTable (app.js 744-785): the cells   *)
(* are collected row by row, the positive ones sorted by value, largest     *)
(* first, by a stable sort, and the first three get the ranks 1, 2, 3.      *)
(***************************************************************************)
\* heatCells (app.js 744-766): the cells, each with its position pos in the row-by-row
\* order
HeatCells(grid) ==
  LET n == Cardinality(DOMAIN grid) IN
  {[value |-> grid[pos \div n][pos % n], row |-> pos \div n, col |-> pos % n, pos |-> pos] :
     pos \in 0..(n * n - 1)}

\* the sort with equal values left in the reverse of their order
SortsBeforeLastFirst(a, b) == a.value > b.value \/ (a.value = b.value /\ a.pos > b.pos)

\* a comes before b after .sort((a, b) => b.value - a.value) (app.js 774): larger
\* value first, equal values in their order before the sort
SortsBefore(a, b) == a.value > b.value \/ (a.value = b.value /\ a.pos < b.pos)

RECURSIVE Slice(_, _)
\* the first n cells of the sorted set of cells, as <<row, col>> pairs
Slice(cells, n) ==
  IF n = 0 \/ cells = {} THEN <<>>
  ELSE Const({<<<<first.row, first.col>>>> \o
                Const({Slice(rest, n - 1) : rest \in {cells \ {first}}}) :
              first \in {c \in cells : \A d \in cells \ {c} : SortsBefore(c, d)}})

\* .filter(value > 0).sort(...).slice(0, 3) (app.js 772-775)
TopScores(grid) ==
  Const({Slice(cells, 3) : cells \in {{c \in HeatCells(grid) : c.value > 0}}})

(***************************************************************************)
(* Inputs of the filter and aggregator specifications                      *)
(***************************************************************************)
Pairings == {<<"X", "Y">>, <<"X", "Z">>, <<"Z", "Y">>}

\* one normalized match record (normalizeMatch, part_000 237-265)
Match(d, p, v) ==
  [dateISO |-> d, HomeTeam |-> p[1], AwayTeam |-> p[2], FTR |-> v[1],
   FTHG |-> v[2], FTAG |-> v[3], HS |-> v[4], HST |-> v[5], AS |-> v[6], AST |-> v[7],
   AvgH |-> v[8], AvgD |-> v[9], AvgA |-> v[10], AvgOver25 |-> v[11], AvgUnder25 |-> v[12]]

\* field variants: everything present; everything absent; a goalless draw without
\* shots; home goals absent only.  Odds are in hundredths.
AllPresent  == <<"H", 2, 1, 10, 4, 8, 3, 180, 350, 420, 190, 195>>
AllAbsent   == <<"", NULL, NULL, NULL, NULL, NULL, NULL, NULL, NULL, NULL, NULL, NULL>>
Goalless    == <<"D", 0, 0, NULL, NULL, NULL, NULL, 250, 310, 280, NULL, 170>>
NoHomeGoals == <<"A", NULL, 3, 6, 0, 12, 7, NULL, 330, 150, 160, NULL>>
Variants    == {AllPresent, AllAbsent, Goalless, NoHomeGoals}

AggPool == {Match(1, p, v) : p \in Pairings, v \in Variants}
FilterPool == {Match(d, <<"X", "Y">>, AllPresent) : d \in (0..MaxDay) \cup {NoDate}}

RECURSIVE SeqsUpTo(_, _)
SeqsUpTo(S, n) ==
  IF n = 0 THEN {<<>>}
  ELSE LET shorter == SeqsUpTo(S, n - 1) IN
       shorter \cup {Append(s, x) : s \in {t \in shorter : Len(t) = n - 1}, x \in S}

Roles == {NoRole, [homeTeam |-> "X", awayTeam |-> ""], [homeTeam |-> "", awayTeam |-> "Y"]}
WindowPresets == {2, 3}
FixtureDates == (0..MaxDay) \cup {NoDate, BadDate}

(***************************************************************************)
(* Idle values: a specification leaves the variables of the other          *)
(* components at these values.                                             *)
(***************************************************************************)
MaxGoals == 9

ZeroDist == [probs |-> [k \in 0..MaxGoals |-> 0], probs9Plus |-> 0]
ZeroGrid ==
  [grid |-> [i \in 0..(MaxGoals + 1) |-> [j \in 0..(MaxGoals + 1) |-> 0]],
   homeWin |-> 0, draw |-> 0, awayWin |-> 0]
ZeroMarkets ==
  [over15 |-> 0, under15 |-> 0, over25 |-> 0, under25 |-> 0, over35 |-> 0, under35 |-> 0,
   bttsYes |-> 0, bttsNo |-> 0]
NoCall ==
  [called |-> FALSE, xGoalsByForm |-> 0, goalsVAvg |-> 0, base |-> 0, delta |-> 0,
   multiplier |-> 1000, lambda |-> 0]

AggIdle ==
  /\ matches = <<>> /\ fixtureDateISO = NoDate /\ windowDays = 0 /\ tzone = ZoneUTC
  /\ matchesInWindow = <<>> /\ role = NoRole /\ agg = EmptyAgg /\ aggPc = "idle"
DevIdle == lastCall = NoCall /\ prevCall = NoCall
GridIdle ==
  /\ lambdaHome = 0 /\ lambdaAway = 0 /\ homePoisson = ZeroDist /\ awayPoisson = ZeroDist
  /\ correctScoreGrid = ZeroGrid /\ summaryMarkets = ZeroMarkets
  /\ summaryCard = ZeroMarkets /\ topScores = <<>> /\ gridPc = "idle"

(***************************************************************************)
(* Filter and aggregator steps of a request (app.js 1144-1148)             *)
(***************************************************************************)
Filter ==
  /\ aggPc = "filter"
  /\ matchesInWindow' = filterMatches(matches, fixtureDateISO, windowDays, tzone)
  /\ aggPc' = "aggregate"
  /\ UNCHANGED <<matches, fixtureDateISO, windowDays, tzone, role, agg>>
  /\ UNCHANGED <<devVars, gridVars, uiVars, predVars, ingestVars>>

Aggregate ==
  /\ aggPc = "aggregate"
  /\ \E r \in Roles :
       /\ role' = r
       /\ agg' = computeAggregates(matchesInWindow, r)
  /\ aggPc' = "done"
  /\ UNCHANGED <<matches, fixtureDateISO, windowDays, tzone, matchesInWindow>>
  /\ UNCHANGED <<devVars, gridVars, uiVars, predVars, ingestVars>>

(***************************************************************************)
(* A call of applyDeviationControl                                         *)
(***************************************************************************)
MaxDeltaSteps == 10
Deltas ==
  {k * 250 + e : k \in (-MaxDeltaSteps)..MaxDeltaSteps, e \in {-1, 0, 1}}
    \cup {5000, -5000, NULL}
Blends == {NULL, -400, 1200}

Deviation ==
  /\ \E b \in Blends, d \in Deltas :
       lastCall' = [called |-> TRUE, xGoalsByForm |-> b, goalsVAvg |-> d]
                      @@ applyDeviationControl(b, d)
  /\ prevCall' = [lastCall EXCEPT !.xGoalsByForm = 0, !.base = 0, !.lambda = 0]
  /\ UNCHANGED <<aggVars, gridVars, uiVars, predVars, ingestVars>>

(***************************************************************************)
(* Distribution, grid and summaries of a prediction (app.js 894-902, 1096) *)
(***************************************************************************)
MaxLambdaQ == 16
Lambdas == (0..MaxLambdaQ) \cup {NULL, -2}

Poisson ==
  /\ gridPc = "poisson"
  /\ homePoisson' = poissonProbabilities(lambdaHome, MaxGoals)
  /\ awayPoisson' = poissonProbabilities(lambdaAway, MaxGoals)
  /\ gridPc' = "grid"
  /\ UNCHANGED <<lambdaHome, lambdaAway, correctScoreGrid, summaryMarkets, summaryCard,
                 topScores>>
  /\ UNCHANGED <<aggVars, devVars, uiVars, predVars, ingestVars>>

BuildGrid ==
  /\ gridPc = "grid"
  /\ correctScoreGrid' = buildCorrectScoreGrid(homePoisson.probs, awayPoisson.probs,
                            homePoisson.probs9Plus, awayPoisson.probs9Plus)
  /\ gridPc' = "markets"
  /\ UNCHANGED <<lambdaHome, lambdaAway, homePoisson, awayPoisson, summaryMarkets, summaryCard,
                 topScores>>
  /\ UNCHANGED <<aggVars, devVars, uiVars, predVars, ingestVars>>

SummaryMarkets ==
  /\ gridPc = "markets"
  /\ summaryMarkets' = computeSummaryMarkets(correctScoreGrid.grid)
  /\ gridPc' = "card"
  /\ UNCHANGED <<lambdaHome, lambdaAway, homePoisson, awayPoisson, correctScoreGrid, summaryCard,
                 topScores>>
  /\ UNCHANGED <<aggVars, devVars, uiVars, predVars, ingestVars>>

SummaryCard ==
  /\ gridPc = "card"
  /\ summaryCard' = buildSummaryCard([homePoisson |-> homePoisson, awayPoisson |-> awayPoisson,
                                      correctScoreGrid |-> correctScoreGrid])
  /\ gridPc' = "table"
  /\ UNCHANGED <<lambdaHome, lambdaAway, homePoisson, awayPoisson, correctScoreGrid, summaryMarkets,
                 topScores>>
  /\ UNCHANGED <<aggVars, devVars, uiVars, predVars, ingestVars>>

\* buildCorrectScoreTable (app.js 1099)
ScoreTable ==
  /\ gridPc = "table"
  /\ topScores' = TopScores(correctScoreGrid.grid)
  /\ gridPc' = "done"
  /\ UNCHANGED <<lambdaHome, lambdaAway, homePoisson, awayPoisson, correctScoreGrid, summaryMarkets,
                 summaryCard>>
  /\ UNCHANGED <<aggVars, devVars, uiVars, predVars, ingestVars>>


(***************************************************************************)
(* Numbers of computePredictions.  A number is the exact fraction n / d in *)
(* lowest terms with d >= 0; d = 0 stands for the values a division can    *)
(* produce outside the finite numbers: Infinity (n = 1), -Infinity         *)
(* (n = -1) and NaN (n = 0).                                               *)
(***************************************************************************)
RECURSIVE GCD(_, _)
GCD(a, b) == IF b = 0 THEN a ELSE GCD(b, a % b)

\* the divisor that brings a and b to lowest terms (1 when both are 0)
Common(a, b) == IF a = 0 /\ b = 0 THEN 1 ELSE GCD(Abs(a), Abs(b))

Sign(x) == IF x > 0 THEN 1 ELSE IF x < 0 THEN -1 ELSE 0

Num(n, d) ==
  IF d = 0 THEN [n |-> Sign(n), d |-> 0]
  ELSE LET g == Common(n, d)
           s == Sign(d)
       IN [n |-> (s * n) \div g, d |-> (s * d) \div g]

Zero == Num(0, 1)
NaN == Num(0, 0)

\* x * y
Times(x, y) ==
  LET g1 == Common(x.n, y.d)
      g2 == Common(y.n, x.d)
  IN Num((x.n \div g1) * (y.n \div g2), (x.d \div g2) * (y.d \div g1))

\* x + y
Plus(x, y) ==
  IF x.d = 0 /\ y.d = 0 THEN (IF x.n = y.n THEN x ELSE NaN)
  ELSE LET g == Common(x.d, y.d)
       IN Num(x.n * (y.d \div g) + y.n * (x.d \div g), (x.d \div g) * y.d)

\* x - y
Minus(x, y) == Plus(x, [n |-> -y.n, d |-> y.d])

\* x / y
DividedBy(x, y) == Times(x, Num(y.d, y.n))

\* x >= y for numbers other than NaN
Geq(x, y) == x.n * y.d >= y.n * x.d

\* Math.max(x, y)
MaxNum(x, y) == IF x = NaN \/ y = NaN THEN NaN ELSE IF Geq(x, y) THEN x ELSE y

\* isValidNumber (app.js 239-241) of a number of computePredictions
isValidNum(value) == value # NaN

\* EPS (app.js 26)
EPS == Num(1, 10000)

\* safeDiv dividing by the denominator as it is
safeDivUnguarded(numerator, denominator) ==
  LET safeNumerator == IF isValidNum(numerator) THEN numerator ELSE Zero
      safeDenominator == IF isValidNum(denominator) THEN denominator ELSE Zero
  IN DividedBy(safeNumerator, safeDenominator)

(***************************************************************************)
(* safeDiv (app.js 67-71)                                                  *)
(***************************************************************************)
safeDiv(numerator, denominator) ==
  LET safeNumerator == IF isValidNum(numerator) THEN numerator ELSE Zero
      safeDenominator == IF isValidNum(denominator) THEN denominator ELSE Zero
  IN DividedBy(safeNumerator, MaxNum(safeDenominator, EPS))

\* clampNonNeg (app.js 73-78) of a number of computePredictions
clampNonNegNum(value) == IF ~isValidNum(value) THEN Zero ELSE MaxNum(Zero, value)

\* a deviation in thousandths, cut towards 0: it passes the same tests of the band
\* table as the deviation itself, whose thresholds are whole thousandths
Thousandths(x) ==
  IF x.d = 0 THEN x.n * 1000000
  ELSE Sign(x.n) * ((Abs(x.n) * 1000) \div x.d)

\* applyDeviationControl (app.js 80-103) on the numbers of computePredictions
applyDeviationControlNum(xGoalsByForm, goalsVAvg) ==
  LET base == IF isValidNum(xGoalsByForm) THEN xGoalsByForm ELSE Zero
      delta == IF isValidNum(goalsVAvg) THEN goalsVAvg ELSE Zero
      multiplier == DeviationMultiplier(Thousandths(delta))
  IN clampNonNegNum(Times(base, Num(multiplier, 1000)))

\* the lambda handed to poissonProbabilities, to the nearest quarter: the
\* resolution at which the distribution is computed
Quarters(x) ==
  IF x = NaN THEN NULL
  ELSE IF x.d = 0 THEN x.n * 1000000
  ELSE (8 * x.n + x.d) \div (2 * x.d)

(***************************************************************************)
(* computePredictions (app.js 821-938)                                     *)
(***************************************************************************)
PredictionKeys == {"FTHG", "FTAG", "HS", "AS", "HST", "AST"}

\* avg with an absent average read as 1
avgAbsentAsOne(source, key) ==
  IF source.averages[key] # NullAvg
    THEN Num(source.averages[key][1], source.averages[key][2])
    ELSE Num(1, 1)

\* avg (app.js 822)
avg(source, key) ==
  IF source.averages[key] # NullAvg
    THEN Num(source.averages[key][1], source.averages[key][2])
    ELSE Zero

\* the scores with each defence score taken against the league's same-side average
ExpectedModelSameSide(h, a, l, homeKey, awayKey) ==
  LET HomeAttackScore == safeDiv(h[homeKey], l[homeKey])
      HomeDefenceScore == safeDiv(h[awayKey], l[homeKey])
      AwayAttackScore == safeDiv(a[awayKey], l[awayKey])
      AwayDefenceScore == safeDiv(a[homeKey], l[awayKey])
  IN [HomeAttackScore |-> HomeAttackScore, HomeDefenceScore |-> HomeDefenceScore,
      AwayAttackScore |-> AwayAttackScore, AwayDefenceScore |-> AwayDefenceScore,
      Home_x |-> Times(Times(HomeAttackScore, AwayDefenceScore), l[homeKey]),
      Away_x |-> Times(Times(AwayAttackScore, HomeDefenceScore), l[awayKey])]

\* the expected values with a side's own defence score in place of the opponent's
ExpectedModelOwnDefence(h, a, l, homeKey, awayKey) ==
  LET HomeAttackScore == safeDiv(h[homeKey], l[homeKey])
      HomeDefenceScore == safeDiv(h[awayKey], l[awayKey])
      AwayAttackScore == safeDiv(a[awayKey], l[awayKey])
      AwayDefenceScore == safeDiv(a[homeKey], l[homeKey])
  IN [HomeAttackScore |-> HomeAttackScore, HomeDefenceScore |-> HomeDefenceScore,
      AwayAttackScore |-> AwayAttackScore, AwayDefenceScore |-> AwayDefenceScore,
      Home_x |-> Times(Times(HomeAttackScore, HomeDefenceScore), l[homeKey]),
      Away_x |-> Times(Times(AwayAttackScore, AwayDefenceScore), l[awayKey])]

\* the scores and expected values of one statistic (app.js 845-851 for goals with
\* the keys FTHG and FTAG, 853-859 for shots with HS and AS, 871-877 for shots on
\* target with HST and AST)
ExpectedModel(h, a, l, homeKey, awayKey) ==
  LET HomeAttackScore == safeDiv(h[homeKey], l[homeKey])
      HomeDefenceScore == safeDiv(h[awayKey], l[awayKey])
      AwayAttackScore == safeDiv(a[awayKey], l[awayKey])
      AwayDefenceScore == safeDiv(a[homeKey], l[homeKey])
  IN [HomeAttackScore |-> HomeAttackScore, HomeDefenceScore |-> HomeDefenceScore,
      AwayAttackScore |-> AwayAttackScore, AwayDefenceScore |-> AwayDefenceScore,
      Home_x |-> Times(Times(HomeAttackScore, AwayDefenceScore), l[homeKey]),
      Away_x |-> Times(Times(AwayAttackScore, HomeDefenceScore), l[awayKey])]

\* the conversion ratios (app.js 861-869)
ConversionRatios(h, a) ==
  [HomeGoalsPerShotFor |-> safeDiv(h["FTHG"], h["HS"]),
   HomeGoalsPerSOTFor |-> safeDiv(h["FTHG"], h["HST"]),
   HomeGoalsPerShotAgainst |-> safeDiv(h["FTAG"], h["AS"]),
   HomeGoalsPerSOTAgainst |-> safeDiv(h["FTAG"], h["AST"]),
   AwayGoalsPerShotFor |-> safeDiv(a["FTAG"], a["AS"]),
   AwayGoalsPerSOTFor |-> safeDiv(a["FTAG"], a["AST"]),
   AwayGoalsPerShotAgainst |-> safeDiv(a["FTHG"], a["HS"]),
   AwayGoalsPerSOTAgainst |-> safeDiv(a["FTHG"], a["HST"])]

\* the blend with the implied goals converted at the side's own scoring ratios
BlendOwnConversion(goals, shots, sot, conv) ==
  LET HomeGoalsBy_xShots == Times(shots.Home_x, conv.HomeGoalsPerShotFor)
      AwayGoalsBy_xShots == Times(shots.Away_x, conv.AwayGoalsPerShotFor)
      HomeGoalsBy_xSOT == Times(sot.Home_x, conv.HomeGoalsPerSOTFor)
      AwayGoalsBy_xSOT == Times(sot.Away_x, conv.AwayGoalsPerSOTFor)
  IN [HomeGoalsBy_xShots |-> HomeGoalsBy_xShots, AwayGoalsBy_xShots |-> AwayGoalsBy_xShots,
      HomeGoalsBy_xSOT |-> HomeGoalsBy_xSOT, AwayGoalsBy_xSOT |-> AwayGoalsBy_xSOT,
      Home_xGoalsByForm |->
        Plus(Plus(Times(Num(1, 2), goals.Home_x), Times(Num(1, 4), HomeGoalsBy_xShots)),
             Times(Num(1, 4), HomeGoalsBy_xSOT)),
      Away_xGoalsByForm |->
        Plus(Plus(Times(Num(1, 2), goals.Away_x), Times(Num(1, 4), AwayGoalsBy_xShots)),
             Times(Num(1, 4), AwayGoalsBy_xSOT))]

\* the implied goals and their blend (app.js 879-886)
Blend(goals, shots, sot, conv) ==
  LET HomeGoalsBy_xShots == Times(shots.Home_x, conv.AwayGoalsPerShotAgainst)
      AwayGoalsBy_xShots == Times(shots.Away_x, conv.HomeGoalsPerShotAgainst)
      HomeGoalsBy_xSOT == Times(sot.Home_x, conv.AwayGoalsPerSOTAgainst)
      AwayGoalsBy_xSOT == Times(sot.Away_x, conv.HomeGoalsPerSOTAgainst)
  IN [HomeGoalsBy_xShots |-> HomeGoalsBy_xShots, AwayGoalsBy_xShots |-> AwayGoalsBy_xShots,
      HomeGoalsBy_xSOT |-> HomeGoalsBy_xSOT, AwayGoalsBy_xSOT |-> AwayGoalsBy_xSOT,
      Home_xGoalsByForm |->
        Plus(Plus(Times(Num(1, 2), goals.Home_x), Times(Num(1, 4), HomeGoalsBy_xShots)),
             Times(Num(1, 4), HomeGoalsBy_xSOT)),
      Away_xGoalsByForm |->
        Plus(Plus(Times(Num(1, 2), goals.Away_x), Times(Num(1, 4), AwayGoalsBy_xShots)),
             Times(Num(1, 4), AwayGoalsBy_xSOT))]

\* the distributions, the grid and the markets (app.js 894-902)
Distributions(lambdaH, lambdaA) ==
  Const({Const({[homePoisson |-> hp, awayPoisson |-> ap, correctScoreGrid |-> csg]
                  @@ computeSummaryMarkets(csg.grid) :
                csg \in {buildCorrectScoreGrid(hp.probs, ap.probs,
                                               hp.probs9Plus, ap.probs9Plus)}}) :
         hp \in {poissonProbabilities(lambdaH, MaxGoals)},
         ap \in {poissonProbabilities(lambdaA, MaxGoals)}})

\* computePredictions from the blend on (app.js 888-938)
Deviated(goals, shots, sot, conv, blend, l) ==
  LET HGoals_v_Avg == Minus(blend.Home_xGoalsByForm, l["FTHG"])
      AGoals_v_Avg == Minus(blend.Away_xGoalsByForm, l["FTAG"])
  IN Const({[HomeAttackScore |-> goals.HomeAttackScore,
             HomeDefenceScore |-> goals.HomeDefenceScore,
             AwayAttackScore |-> goals.AwayAttackScore,
             AwayDefenceScore |-> goals.AwayDefenceScore,
             Home_xG_Goals |-> goals.Home_x, Away_xG_Goals |-> goals.Away_x,
             Home_xShots |-> shots.Home_x, Away_xShots |-> shots.Away_x,
             Home_xSOT |-> sot.Home_x, Away_xSOT |-> sot.Away_x,
             HGoals_v_Avg |-> HGoals_v_Avg, AGoals_v_Avg |-> AGoals_v_Avg,
             HGoalsFormDevi |-> HGoalsFormDevi, AGoalsFormDevi |-> AGoalsFormDevi]
            @@ conv @@ blend
            @@ Distributions(Quarters(HGoalsFormDevi), Quarters(AGoalsFormDevi)) :
           HGoalsFormDevi \in {applyDeviationControlNum(blend.Home_xGoalsByForm, HGoals_v_Avg)},
           AGoalsFormDevi \in {applyDeviationControlNum(blend.Away_xGoalsByForm, AGoals_v_Avg)}})

\* computePredictions from the averages on (app.js 845-938)
PredictionsOf(h, a, l) ==
  Const({Const({Deviated(goals, shots, sot, conv, blend, l) :
                blend \in {Blend(goals, shots, sot, conv)}}) :
         goals \in {ExpectedModel(h, a, l, "FTHG", "FTAG")},
         shots \in {ExpectedModel(h, a, l, "HS", "AS")},
         conv \in {ConversionRatios(h, a)},
         sot \in {ExpectedModel(h, a, l, "HST", "AST")}})

computePredictions(hAgg, aAgg, lAgg) ==
  Const({PredictionsOf(h, a, l) :
         h \in {[key \in PredictionKeys |-> avg(hAgg, key)]},
         a \in {[key \in PredictionKeys |-> avg(aAgg, key)]},
         l \in {[key \in PredictionKeys |-> avg(lAgg, key)]}})

\* the numeric fields of the result that are numbers of computePredictions
NumFields ==
  {"HomeAttackScore", "HomeDefenceScore", "AwayAttackScore", "AwayDefenceScore",
   "Home_xG_Goals", "Away_xG_Goals", "Home_xShots", "Away_xShots", "Home_xSOT", "Away_xSOT",
   "HomeGoalsPerShotFor", "HomeGoalsPerSOTFor", "HomeGoalsPerShotAgainst",
   "HomeGoalsPerSOTAgainst", "AwayGoalsPerShotFor", "AwayGoalsPerSOTFor",
   "AwayGoalsPerShotAgainst", "AwayGoalsPerSOTAgainst",
   "HomeGoalsBy_xShots", "AwayGoalsBy_xShots", "HomeGoalsBy_xSOT", "AwayGoalsBy_xSOT",
   "Home_xGoalsByForm", "Away_xGoalsByForm", "HGoals_v_Avg", "AGoals_v_Avg",
   "HGoalsFormDevi", "AGoalsFormDevi"}

\* no predictions computed
NoPredictions == [none |-> TRUE]

(***************************************************************************)
(* The page: selects, status line, tables, the cache of loaded league      *)
(* collections and the generateBreakdown requests awaiting their load      *)
(* (app.js 1119-1205).  A request whose league is cached runs to its end   *)
(* within the event that issued it (its continuation is a microtask); a    *)
(* request that fetches is resumed when its fetch settles, in any order.   *)
(***************************************************************************)
MaxRequests == 3   \* requests issued in one behaviour
MaxVersion  == 2   \* versions of the data files published by the data build

Leagues == {"E0", "E1"}

Fixture(id, home, away, d) == [id |-> id, homeTeam |-> home, awayTeam |-> away, dateISO |-> d]

\* data/fixtures_index.json
FixturesFile ==
  [l \in Leagues |->
     IF l = "E0" THEN <<Fixture("E0-1", "X", "Y", 6), Fixture("E0-2", "Z", "Y", 7)>>
     ELSE <<Fixture("E1-1", "X", "Z", 6)>>]

\* data/league_matches/{league}.json as published in version v
LeagueFile(l, v) ==
  LET first == IF l = "E0"
                 THEN <<Match(3, <<"X", "Y">>, AllPresent), Match(4, <<"Z", "Y">>, Goalless),
                        Match(5, <<"X", "Z">>, NoHomeGoals)>>
                 ELSE <<Match(4, <<"X", "Z">>, Goalless), Match(5, <<"Z", "Y">>, AllPresent)>>
  IN IF v = 1 THEN first ELSE Append(first, Match(5, <<"X", "Y">>, Goalless))

NotLoaded == [has |-> FALSE, version |-> 0, data |-> <<>>]

Status(msg, n) == [msg |-> msg, n |-> n]

NoTables ==
  [leagueCode |-> "", fixtureId |-> "", windowDays |-> 0, version |-> 0,
   predictions |-> NoPredictions,
   homeAgg |-> EmptyAgg, awayAgg |-> EmptyAgg, leagueAgg |-> EmptyAgg]

NoRequest == [id |-> 0, leagueCode |-> "", fixtureId |-> ""]

UiIdle ==
  /\ fixturesIndex = "idle" /\ leagueSelect = "" /\ fixtureSelect = "" /\ windowSelect = 0
  /\ statusEl = Status("", 0) /\ tablesEl = NoTables
  /\ leagueMatchesCache = [l \in Leagues |-> NotLoaded]
  /\ inflight = {} /\ nextId = 1 /\ lastIssued = NoRequest
  /\ outcome = [i \in 1..MaxRequests |-> "none"] /\ serverVersion = 1

\* getSelectedFixture (app.js 222-224)
getSelectedFixture(fixtures, value) ==
  LET found == {i \in 1..Len(fixtures) : fixtures[i].id = value} IN
  IF found = {} THEN <<>> ELSE <<fixtures[CHOOSE i \in found : \A j \in found : i <= j]>>

\* generateBreakdown from the load on, with the league aggregate taken from the
\* collection published last instead of the one loaded
RenderedRereads(leagueCode, selectedFixture, entry, wd, z) ==
  LET window == filterMatches(entry.data, selectedFixture.dateISO, wd, z)
      latest == filterMatches(LeagueFile(leagueCode, MaxVersion), selectedFixture.dateISO, wd, z)
      hAgg == computeAggregates(window, [homeTeam |-> selectedFixture.homeTeam, awayTeam |-> ""])
      aAgg == computeAggregates(window, [homeTeam |-> "", awayTeam |-> selectedFixture.awayTeam])
      lAgg == computeAggregates(latest, NoRole)
  IN
  [status |-> IF Len(window) = 0 THEN Status("No matches found in this lookback window", 0)
              ELSE Status("Using matches from the historical pool", Len(window)),
   tables |-> [leagueCode |-> leagueCode, fixtureId |-> selectedFixture.id,
               windowDays |-> wd, version |-> entry.version,
               predictions |-> computePredictions(hAgg, aAgg, lAgg),
               homeAgg |-> hAgg, awayAgg |-> aAgg, leagueAgg |-> lAgg]]

\* generateBreakdown from the load on (app.js 1142-1160): filter, aggregate, status, render
Rendered(leagueCode, selectedFixture, entry, wd, z) ==
  LET window == filterMatches(entry.data, selectedFixture.dateISO, wd, z)
      hAgg == computeAggregates(window, [homeTeam |-> selectedFixture.homeTeam, awayTeam |-> ""])
      aAgg == computeAggregates(window, [homeTeam |-> "", awayTeam |-> selectedFixture.awayTeam])
      lAgg == computeAggregates(window, NoRole)
  IN
  [status |-> IF Len(window) = 0 THEN Status("No matches found in this lookback window", 0)
              ELSE Status("Using matches from the historical pool", Len(window)),
   tables |-> [leagueCode |-> leagueCode, fixtureId |-> selectedFixture.id,
               windowDays |-> wd, version |-> entry.version,
               predictions |-> computePredictions(hAgg, aAgg, lAgg),
               homeAgg |-> hAgg, awayAgg |-> aAgg, leagueAgg |-> lAgg]]

\* generateBreakdown up to its await (app.js 1128-1142), and to its end when
\* loadLeagueMatches answers from the cache (app.js 1120-1122).  lg, fx and wd are the
\* values of the three selects when the event is handled.
GenerateBreakdown(lg, fx, wd) ==
  LET fixtures == FixturesFile[lg]
      sel == getSelectedFixture(fixtures, fx)
  IN
  IF lg = "" \/ fixturesIndex' # "loaded" THEN
    UNCHANGED <<statusEl, tablesEl, leagueMatchesCache, inflight, nextId, lastIssued, outcome>>
  ELSE IF sel = <<>> THEN
    /\ statusEl' = Status("Select a fixture to continue.", 0)
    /\ UNCHANGED <<tablesEl, leagueMatchesCache, inflight, nextId, lastIssued, outcome>>
  ELSE
    /\ nextId' = nextId + 1
    /\ lastIssued' = [id |-> nextId, leagueCode |-> lg, fixtureId |-> sel[1].id]
    /\ UNCHANGED leagueMatchesCache
    /\ IF leagueMatchesCache[lg].has
         THEN LET r == Rendered(lg, sel[1], leagueMatchesCache[lg], wd, tzone) IN
              /\ statusEl' = r.status
              /\ tablesEl' = r.tables
              /\ outcome' = [outcome EXCEPT ![nextId] = "rendered"]
              /\ UNCHANGED inflight
         ELSE /\ statusEl' = Status("Calculating averages...", 0)
              /\ inflight' = inflight \cup
                   {[id |-> nextId, leagueCode |-> lg, selectedFixture |-> sel[1]]}
              /\ outcome' = [outcome EXCEPT ![nextId] = "pending"]
              /\ UNCHANGED tablesEl

\* selectDefaultLeague (app.js 188-191): the first league of LEAGUES with fixtures
DefaultLeague == "E0"
DefaultWindow == CHOOSE w \in WindowPresets : \A v \in WindowPresets : w <= v

\* init, fixtures index loaded (app.js 1169-1203)
InitLoaded ==
  /\ fixturesIndex = "loading"
  /\ fixturesIndex' = "loaded"
  /\ leagueSelect' = DefaultLeague
  /\ fixtureSelect' = FixturesFile[DefaultLeague][1].id
  /\ UNCHANGED <<windowSelect, serverVersion>>
  /\ GenerateBreakdown(leagueSelect', fixtureSelect', windowSelect)
  /\ UNCHANGED <<aggVars, devVars, gridVars, predVars, ingestVars>>

\* init, fixtures index failed to load (app.js 1173-1177)
InitFailed ==
  /\ fixturesIndex = "loading"
  /\ fixturesIndex' = "failed"
  /\ statusEl' = Status("Failed to load fixtures data.", 0)
  /\ UNCHANGED <<leagueSelect, fixtureSelect, windowSelect, tablesEl, leagueMatchesCache,
                 inflight, nextId, lastIssued, outcome, serverVersion>>
  /\ UNCHANGED <<aggVars, devVars, gridVars, predVars, ingestVars>>

\* change event of the league select: handleLeagueChange (app.js 1163-1167)
ChangeLeague ==
  /\ fixturesIndex = "loaded" /\ nextId <= MaxRequests
  /\ \E l \in Leagues \ {leagueSelect} :
       /\ leagueSelect' = l
       /\ fixtureSelect' = FixturesFile[l][1].id
       /\ UNCHANGED <<fixturesIndex, windowSelect, serverVersion>>
       /\ GenerateBreakdown(l, fixtureSelect', windowSelect)
  /\ UNCHANGED <<aggVars, devVars, gridVars, predVars, ingestVars>>

\* change event of the fixture select (app.js 1198)
ChangeFixture ==
  /\ fixturesIndex = "loaded" /\ nextId <= MaxRequests
  /\ \E i \in 1..Len(FixturesFile[leagueSelect]) :
       /\ FixturesFile[leagueSelect][i].id # fixtureSelect
       /\ fixtureSelect' = FixturesFile[leagueSelect][i].id
       /\ UNCHANGED <<fixturesIndex, leagueSelect, windowSelect, serverVersion>>
       /\ GenerateBreakdown(leagueSelect, fixtureSelect', windowSelect)
  /\ UNCHANGED <<aggVars, devVars, gridVars, predVars, ingestVars>>

\* change event of the window select (app.js 1199)
ChangeWindow ==
  /\ fixturesIndex = "loaded" /\ nextId <= MaxRequests
  /\ \E w \in WindowPresets \ {windowSelect} :
       /\ windowSelect' = w
       /\ UNCHANGED <<fixturesIndex, leagueSelect, fixtureSelect, serverVersion>>
       /\ GenerateBreakdown(leagueSelect, fixtureSelect, w)
  /\ UNCHANGED <<aggVars, devVars, gridVars, predVars, ingestVars>>

\* click on the generate button (app.js 1200)
ClickGenerate ==
  /\ fixturesIndex = "loaded" /\ nextId <= MaxRequests
  /\ UNCHANGED <<fixturesIndex, leagueSelect, fixtureSelect, windowSelect, serverVersion>>
  /\ GenerateBreakdown(leagueSelect, fixtureSelect, windowSelect)
  /\ UNCHANGED <<aggVars, devVars, gridVars, predVars, ingestVars>>

\* the fetch of a request succeeds: loadLeagueMatches stores the collection
\* (app.js 1123-1125) and generateBreakdown runs to its end (app.js 1143-1160)
FetchDone ==
  /\ \E req \in inflight :
       LET entry == [has |-> TRUE, version |-> serverVersion,
                     data |-> LeagueFile(req.leagueCode, serverVersion)]
           r == Rendered(req.leagueCode, req.selectedFixture, entry, windowSelect, tzone)
       IN /\ leagueMatchesCache' = [leagueMatchesCache EXCEPT ![req.leagueCode] = entry]
          /\ statusEl' = r.status
          /\ tablesEl' = r.tables
          /\ inflight' = inflight \ {req}
          /\ outcome' = [outcome EXCEPT ![req.id] = "rendered"]
  /\ UNCHANGED <<fixturesIndex, leagueSelect, fixtureSelect, windowSelect, nextId,
                 lastIssued, serverVersion>>
  /\ UNCHANGED <<aggVars, devVars, gridVars, predVars, ingestVars>>

\* the fetch of a request fails: fetchJson throws (app.js 175-177), the request ends
FetchFailed ==
  /\ \E req \in inflight :
       /\ inflight' = inflight \ {req}
       /\ outcome' = [outcome EXCEPT ![req.id] = "failed"]
  /\ UNCHANGED <<fixturesIndex, leagueSelect, fixtureSelect, windowSelect, statusEl, tablesEl,
                 leagueMatchesCache, nextId, lastIssued, serverVersion>>
  /\ UNCHANGED <<aggVars, devVars, gridVars, predVars, ingestVars>>

\* the scheduled data build publishes new data files (README.md 25-31)
DataRefresh ==
  /\ serverVersion < MaxVersion
  /\ serverVersion' = serverVersion + 1
  /\ UNCHANGED <<fixturesIndex, leagueSelect, fixtureSelect, windowSelect, statusEl, tablesEl,
                 leagueMatchesCache, inflight, nextId, lastIssued, outcome>>
  /\ UNCHANGED <<aggVars, devVars, gridVars, predVars, ingestVars>>

(***************************************************************************)
(* A request from the filter to the predictions (generateBreakdown,        *)
(* app.js 1144-1148, and renderTables, app.js 1104-1107), and              *)
(* computePredictions on aggregates given directly                         *)
(***************************************************************************)
MaxPredMatches == 2   \* length of the collection of a request

\* the fixture of the request: X at home against Y
HomeRole == [homeTeam |-> "X", awayTeam |-> ""]
AwayRole == [homeTeam |-> "", awayTeam |-> "Y"]

PredPool == {Match(5, p, v) : p \in Pairings, v \in Variants}
\* no date, an unparsable date, a date with day 5 in its window, a date with day 5
\* before its window
PredFixtureDates == {NoDate, BadDate, 6, 9}

\* an aggregate with the given six averages and nothing else
AggOf(FTHG, FTAG, HS, AS, HST, AST) ==
  [averages |->
     [key \in MetricKeySet |->
        CASE key = "FTHG" -> FTHG [] key = "FTAG" -> FTAG [] key = "HS" -> HS
          [] key = "AS" -> AS [] key = "HST" -> HST [] key = "AST" -> AST
          [] OTHER -> NullAvg],
   totals |-> EmptyAgg.totals]

\* a league with 1.5 home and 1.2 away goals a match; a home side scoring 2.0; an away
\* side scoring 0.8 that faced no shot on target; goals without shot figures; every
\* average zero; every average absent
LeagueProfile == AggOf(<<3, 2>>, <<6, 5>>, <<4, 1>>, <<3, 1>>, <<2, 1>>, <<1, 1>>)
HomeProfile == AggOf(<<2, 1>>, <<1, 1>>, <<4, 1>>, <<3, 1>>, <<3, 1>>, <<1, 1>>)
AwayProfile == AggOf(<<3, 2>>, <<4, 5>>, <<4, 1>>, <<2, 1>>, <<0, 1>>, <<1, 1>>)
GoalsOnlyProfile == AggOf(<<5, 2>>, <<1, 2>>, NullAvg, NullAvg, NullAvg, NullAvg)
ZeroProfile == AggOf(<<0, 1>>, <<0, 1>>, <<0, 1>>, <<0, 1>>, <<0, 1>>, <<0, 1>>)
AggProfiles ==
  {LeagueProfile, HomeProfile, AwayProfile, GoalsOnlyProfile, ZeroProfile, EmptyAgg}

PredIdle ==
  /\ homeAgg = EmptyAgg /\ awayAgg = EmptyAgg /\ leagueAgg = EmptyAgg
  /\ predicted = NoPredictions /\ predPc = "idle"

\* the three aggregates of a request (app.js 1146-1148)
AggregateAll ==
  /\ aggPc = "aggregate" /\ predPc = "aggregates"
  /\ homeAgg' = computeAggregates(matchesInWindow, HomeRole)
  /\ awayAgg' = computeAggregates(matchesInWindow, AwayRole)
  /\ leagueAgg' = computeAggregates(matchesInWindow, NoRole)
  /\ aggPc' = "done" /\ predPc' = "predict"
  /\ UNCHANGED <<predicted, matches, fixtureDateISO, windowDays, tzone, matchesInWindow,
                 role, agg>>
  /\ UNCHANGED <<devVars, gridVars, uiVars, ingestVars>>

\* renderTables (app.js 1104-1107)
Predict ==
  /\ predPc = "predict"
  /\ predicted' = computePredictions(homeAgg, awayAgg, leagueAgg)
  /\ predPc' = "done"
  /\ UNCHANGED <<homeAgg, awayAgg, leagueAgg>>
  /\ UNCHANGED <<aggVars, devVars, gridVars, uiVars, ingestVars>>

(***************************************************************************)
(* Ingestion of one CSV row by the data build (part_000 128-134, 174-177,  *)
(* 237-265; scripts/build-data.mjs 105-111 is the same toNumber).  A field *)
(* is the sequence of its characters, over the digits, the point, the      *)
(* minus sign, the space and the letter z, which no numeral contains.      *)
(***************************************************************************)
MaxFieldNumber == 12   \* numerals 0..MaxFieldNumber are among the fields of a row

\* null
Null == [null |-> TRUE]
\* the value undefined, kept apart from every text
Undefined == <<"undefined">>

\* the decimal digits and their values
DigitValue ==
  ("0" :> 0) @@ ("1" :> 1) @@ ("2" :> 2) @@ ("3" :> 3) @@ ("4" :> 4) @@
  ("5" :> 5) @@ ("6" :> 6) @@ ("7" :> 7) @@ ("8" :> 8) @@ ("9" :> 9)

\* String.prototype.trim: the text from its first to its last character that is no blank
Trim(text) ==
  LET kept == {i \in 1..Len(text) : text[i] # " "} IN
  IF kept = {} THEN <<>>
  ELSE SubSeq(text, CHOOSE i \in kept : \A j \in kept : i <= j,
                    CHOOSE i \in kept : \A j \in kept : i >= j)

RECURSIVE DigitsValue(_)
\* the value of a run of decimal digits (0 for the empty run)
DigitsValue(digits) ==
  IF digits = <<>> THEN 0
  ELSE 10 * DigitsValue(SubSeq(digits, 1, Len(digits) - 1)) + DigitValue[digits[Len(digits)]]

\* Number(text) of a text without surrounding blanks: the empty text is 0; a decimal
\* numeral (optional sign, digits with at most one point and at least one digit) is its
\* value; anything else is NaN
ToNumeric(text) ==
  IF text = <<>> THEN Zero
  ELSE
    LET signed == text[1] = "-"
        body == IF signed THEN Tail(text) ELSE text
        points == {i \in 1..Len(body) : body[i] = "."}
        wellFormed ==
          /\ Cardinality(points) <= 1
          /\ \A i \in (1..Len(body)) \ points : body[i] \in DOMAIN DigitValue
          /\ Len(body) > Cardinality(points)
        point == IF points = {} THEN Len(body) + 1 ELSE CHOOSE i \in points : TRUE
        whole == SubSeq(body, 1, point - 1)
        fraction == SubSeq(body, point + 1, Len(body))
        scale == DigitsValue(<<"1">> \o [i \in 1..Len(fraction) |-> "0"])
        magnitude == DigitsValue(whole) * scale + DigitsValue(fraction)
    IN IF ~wellFormed THEN NaN
       ELSE Num(IF signed THEN -magnitude ELSE magnitude, scale)

\* toNumber without the test for a blank field
toNumberBlankAsZero(value) ==
  IF value = Undefined THEN Null
  ELSE LET trimmed == Trim(value)
           num == ToNumeric(trimmed)
       IN IF num = NaN THEN Null ELSE num

\* toNumber (part_000 128-134)
toNumber(value) ==
  IF value = Undefined THEN Null
  ELSE LET trimmed == Trim(value)
           num == ToNumeric(trimmed)
       IN IF trimmed = <<>> THEN Null
          ELSE IF num = NaN THEN Null ELSE num

NumericColumns ==
  {"FTHG", "FTAG", "HS", "HST", "AS", "AST", "AvgH", "AvgD", "AvgA", "AvgOver25", "AvgUnder25"}

\* readRowValue (part_000 174-177): a column whose header the file lacks reads as ""
readRowValue(row, column) ==
  IF column \notin row.headers THEN <<>> ELSE row.cells[column]

\* normalizeMatch (part_000 237-265); row.dateISO is the date parseDateToISO found
normalizeMatch(row) ==
  IF row.dateISO = NoDate THEN Null
  ELSE [dateISO |-> row.dateISO, HomeTeam |-> row.HomeTeam, AwayTeam |-> row.AwayTeam,
        numbers |-> [column \in NumericColumns |-> toNumber(readRowValue(row, column))]]

RECURSIVE DigitsOf(_)
\* the decimal numeral of a natural number
DigitsOf(n) ==
  LET last == CHOOSE c \in DOMAIN DigitValue : DigitValue[c] = n % 10 IN
  IF n < 10 THEN <<last>> ELSE DigitsOf(n \div 10) \o <<last>>

\* fields of a row: missing, blank, numerals (plain, padded, signed, with a fraction,
\* with a bare point or a leading zero) and texts that are not numerals
FieldTexts ==
  {Undefined, <<>>, <<" ">>, <<" ", "2", " ">>, <<"2", ".", "5">>, <<"-", "1">>,
   <<"5", ".">>, <<".", "5">>, <<"0", "7">>,
   <<"z">>, <<"1", "z">>, <<"-">>, <<".">>, <<"1", " ", "2">>, <<"1", ".", "2", ".", "3">>}
    \cup {DigitsOf(n) : n \in 0..MaxFieldNumber}

CsvRows ==
  {[dateISO |-> d, HomeTeam |-> "X", AwayTeam |-> "Y", headers |-> NumericColumns \ lacking,
    cells |-> [column \in NumericColumns |->
                 IF column = "FTHG" THEN home ELSE IF column = "FTAG" THEN away ELSE other]] :
     d \in {NoDate, 5}, lacking \in {{}, {"AvgUnder25"}},
     home \in FieldTexts, away \in FieldTexts, other \in {<<>>, <<"1", ".", "9">>}}

IngestIdle == csvRow = <<>> /\ normalized = Null /\ ingestPc = "idle"

\* one row of a league file is normalized (part_000 330)
Normalize ==
  /\ ingestPc = "row"
  /\ normalized' = normalizeMatch(csvRow)
  /\ ingestPc' = "done"
  /\ UNCHANGED csvRow
  /\ UNCHANGED <<aggVars, devVars, gridVars, uiVars, predVars>>

(***************************************************************************)
(* Specifications                                                          *)
(***************************************************************************)
\* the match filter followed by the aggregator, over every small collection of dated records
FilterInit ==
  /\ matches \in SeqsUpTo(FilterPool, MaxFilterLen)
  /\ fixtureDateISO \in FixtureDates
  /\ windowDays \in WindowPresets
  /\ tzone \in Zones
  /\ matchesInWindow = <<>> /\ role = NoRole /\ agg = EmptyAgg /\ aggPc = "filter"
  /\ DevIdle /\ IngestIdle /\ GridIdle /\ UiIdle /\ PredIdle
FilterNext == Filter \/ Aggregate
FilterSpec == FilterInit /\ [][FilterNext]_vars

\* the aggregator over every small window of records
AggInit ==
  /\ matchesInWindow \in SeqsUpTo(AggPool, MaxMatches)
  /\ matches = matchesInWindow
  /\ fixtureDateISO = NoDate /\ windowDays = 0 /\ tzone = ZoneUTC
  /\ role = NoRole /\ agg = EmptyAgg /\ aggPc = "aggregate"
  /\ DevIdle /\ IngestIdle /\ GridIdle /\ UiIdle /\ PredIdle
AggNext == Aggregate
AggSpec == AggInit /\ [][AggNext]_vars

\* calls of the deviation controller
DevInit == AggIdle /\ DevIdle /\ IngestIdle /\ GridIdle /\ UiIdle /\ PredIdle
DevNext == Deviation
DevSpec == DevInit /\ [][DevNext]_vars

\* distribution, grid and summaries for every pair of lambdas
GridInit ==
  /\ lambdaHome \in Lambdas /\ lambdaAway \in Lambdas
  /\ homePoisson = ZeroDist /\ awayPoisson = ZeroDist /\ correctScoreGrid = ZeroGrid
  /\ summaryMarkets = ZeroMarkets /\ summaryCard = ZeroMarkets /\ topScores = <<>>
  /\ gridPc = "poisson"
  /\ AggIdle /\ DevIdle /\ IngestIdle /\ UiIdle /\ PredIdle
GridNext == Poisson \/ BuildGrid \/ SummaryMarkets \/ SummaryCard \/ ScoreTable
GridSpec == GridInit /\ [][GridNext]_vars

\* a request from its filter to its predictions, and computePredictions on every
\* triple of aggregate profiles
PredInit ==
  /\ \/ /\ matches \in SeqsUpTo(PredPool, MaxPredMatches)
        /\ fixtureDateISO \in PredFixtureDates
        /\ windowDays \in WindowPresets
        /\ aggPc = "filter" /\ predPc = "aggregates"
        /\ homeAgg = EmptyAgg /\ awayAgg = EmptyAgg /\ leagueAgg = EmptyAgg
     \/ /\ matches = <<>> /\ fixtureDateISO = NoDate /\ windowDays = 0
        /\ aggPc = "idle" /\ predPc = "predict"
        /\ homeAgg \in AggProfiles /\ awayAgg \in AggProfiles /\ leagueAgg \in AggProfiles
  /\ tzone = ZoneUTC /\ matchesInWindow = <<>> /\ role = NoRole /\ agg = EmptyAgg
  /\ predicted = NoPredictions
  /\ DevIdle /\ IngestIdle /\ GridIdle /\ UiIdle
PredNext == Filter \/ AggregateAll \/ Predict
PredSpec == PredInit /\ [][PredNext]_vars

\* the data build normalizing every small row
IngestInit ==
  /\ csvRow \in CsvRows /\ normalized = Null /\ ingestPc = "row"
  /\ AggIdle /\ DevIdle /\ GridIdle /\ UiIdle /\ PredIdle
IngestSpec == IngestInit /\ [][Normalize]_vars

\* the page from its construction on
Init ==
  /\ AggIdle /\ DevIdle /\ IngestIdle /\ GridIdle /\ PredIdle
  /\ fixturesIndex = "loading" /\ leagueSelect = "" /\ fixtureSelect = ""
  /\ windowSelect = DefaultWindow
  /\ statusEl = Status("Loading fixtures...", 0) /\ tablesEl = NoTables
  /\ leagueMatchesCache = [l \in Leagues |-> NotLoaded]
  /\ inflight = {} /\ nextId = 1 /\ lastIssued = NoRequest
  /\ outcome = [i \in 1..MaxRequests |-> "none"] /\ serverVersion = 1
Next ==
  \/ InitLoaded \/ InitFailed
  \/ ChangeLeague \/ ChangeFixture \/ ChangeWindow \/ ClickGenerate
  \/ FetchDone \/ FetchFailed \/ DataRefresh
Spec == Init /\ [][Next]_vars


(***************************************************************************)
(* Properties                                                              *)
(***************************************************************************)
\* the role filter of computeAggregates, stated on one match
PassesRole(match, r) ==
  /\ r.homeTeam = "" \/ match.HomeTeam = r.homeTeam
  /\ r.awayTeam = "" \/ match.AwayTeam = r.awayTeam

\* positions of the matches that pass the role filter and have the metric present
PresentAt(ms, r, key) ==
  {i \in 1..Len(ms) : PassesRole(ms[i], r) /\ ms[i][key] # NULL}

\* C1: every reported average is (sum of the values present for the metric) /
\* (number of role-filtered matches where it is present); a match missing one field
\* still counts for the metrics it has; a metric with no present value has the
\* absent average, not 0.
C1_AveragesAreMeansOfPresent ==
  aggPc = "done" =>
    \A key \in MetricKeySet :
      LET at == PresentAt(matchesInWindow, role, key)
          total == SumOver([i \in 1..Len(matchesInWindow) |-> matchesInWindow[i][key]], at)
      IN IF at = {} THEN agg.averages[key] = NullAvg
         ELSE /\ agg.averages[key] # NullAvg
              /\ AvgEq(agg.averages[key], <<total, Cardinality(at)>>)

\* a role-filtered aggregate over a window in which a match excluded by the role exists,
\* a counted match lacks its home goals but has its away goals, the home goals have no
\* present value at all and another metric has a present zero
C1_Witness ==
  /\ aggPc = "done" /\ role.homeTeam = "X"
  /\ \E i \in 1..Len(matchesInWindow) : ~PassesRole(matchesInWindow[i], role)
  /\ \E i \in 1..Len(matchesInWindow) :
       /\ PassesRole(matchesInWindow[i], role)
       /\ matchesInWindow[i].FTHG = NULL /\ matchesInWindow[i].FTAG # NULL
  /\ agg.totals.gamesPlayed = 2
  /\ agg.averages["FTHG"] = NullAvg
  /\ agg.averages["FTAG"] = <<3, 1>>
  /\ agg.averages["HST"] = <<0, 1>>

\* C2: filterMatches keeps exactly the records dated d with
\* fixtureDate - windowDays <= d < fixtureDate.
C2_HalfOpenWindow ==
  (aggPc # "filter" /\ fixtureDateISO \in 0..MaxDay) =>
    LET InWindow(m) ==
          /\ m.dateISO \in 0..MaxDay
          /\ fixtureDateISO - windowDays <= m.dateISO
          /\ m.dateISO < fixtureDateISO
    IN matchesInWindow = SelectSeq(matches, InWindow)


\* C3: when generateBreakdown requests overlap, the tables shown once every request has
\* finished are those of the most recently issued request, whatever order the loads
\* complete in.
C3_LatestRequestShown ==
  (inflight = {} /\ lastIssued.id > 0 /\ outcome[lastIssued.id] = "rendered") =>
    /\ tablesEl.leagueCode = lastIssued.leagueCode
    /\ tablesEl.fixtureId = lastIssued.fixtureId

ValidLambda(l) == l # NULL /\ l >= 0

\* 1e-6 in units of 1/ONE
Tolerance == ONE \div 1000000

\* C4: for a lambda >= 0 the 11 probabilities (goal counts 0..9 and the tail) sum to 1
\* within 1e-6 and P(0) = e^-lambda.
C4_DistributionSumsToOne ==
  gridPc \notin {"idle", "poisson"} =>
    /\ ValidLambda(lambdaHome) =>
         /\ Cardinality(DOMAIN WithTail(homePoisson)) = 11
         /\ Abs(DistSum(homePoisson) - ONE) <= Tolerance
         /\ homePoisson.probs[0] = ExpNeg(lambdaHome)
    /\ ValidLambda(lambdaAway) =>
         /\ Cardinality(DOMAIN WithTail(awayPoisson)) = 11
         /\ Abs(DistSum(awayPoisson) - ONE) <= Tolerance
         /\ awayPoisson.probs[0] = ExpNeg(lambdaAway)

\* distributions computed for lambda 1.5 and lambda 0
C4_Witness ==
  /\ gridPc = "grid" /\ lambdaHome = 6 /\ lambdaAway = 0
  /\ homePoisson.probs[0] < ONE /\ homePoisson.probs[3] > 0 /\ homePoisson.probs9Plus > 0
  /\ awayPoisson.probs[0] = ONE /\ awayPoisson.probs9Plus = 0

\* C5: the grid is 11x11, every cell [i][j] is P_home(i) x P_away(j) with index 10 the
\* tail, and the 121 cells sum to (sum of home distribution) x (sum of away distribution),
\* which is 1 when both sum to 1.
C5_GridIsOuterProduct ==
  gridPc \in {"markets", "card", "done"} =>
    LET grid == correctScoreGrid.grid
        h == WithTail(homePoisson)
        a == WithTail(awayPoisson)
    IN /\ DOMAIN grid = 0..10
       /\ \A i \in 0..10 : DOMAIN grid[i] = 0..10
       /\ \A i \in 0..10, j \in 0..10 : grid[i][j] = h[i] * a[j]
       /\ GridTotal(grid) = DistSum(homePoisson) * DistSum(awayPoisson)
       /\ (DistSum(homePoisson) = ONE /\ DistSum(awayPoisson) = ONE) => GridTotal(grid) = GridOne

\* a grid built from two different distributions with mass in both tails
C5_Witness ==
  /\ gridPc = "markets" /\ lambdaHome = 12 /\ lambdaAway = 6
  /\ correctScoreGrid.grid[1][0] # correctScoreGrid.grid[0][1]
  /\ correctScoreGrid.grid[10][3] # correctScoreGrid.grid[3][10]
  /\ correctScoreGrid.grid[10][10] > 0

\* C6: homeWin, draw and awayWin are the sums of the cells with home index >, = and <
\* the away index over 0..10 (the tail index 10 above every finite count), so that
\* homeWin + draw + awayWin is the grid total, 1 for two distributions summing to 1.
C6_OutcomesPartitionGrid ==
  gridPc \in {"markets", "card", "done"} =>
    LET grid == correctScoreGrid.grid
        cells == GridCells(grid)
    IN /\ correctScoreGrid.homeWin = SumCells(grid, {c \in cells : c[1] > c[2]})
       /\ correctScoreGrid.draw = SumCells(grid, {c \in cells : c[1] = c[2]})
       /\ correctScoreGrid.awayWin = SumCells(grid, {c \in cells : c[1] < c[2]})
       /\ correctScoreGrid.homeWin + correctScoreGrid.draw + correctScoreGrid.awayWin
            = GridTotal(grid)
       /\ (DistSum(homePoisson) = ONE /\ DistSum(awayPoisson) = ONE) =>
            correctScoreGrid.homeWin + correctScoreGrid.draw + correctScoreGrid.awayWin = GridOne

\* outcome sums of a grid in which all three outcomes and the tail/tail cell have mass
C6_Witness ==
  /\ gridPc = "markets" /\ lambdaHome = 12 /\ lambdaAway = 6
  /\ correctScoreGrid.homeWin > correctScoreGrid.awayWin
  /\ correctScoreGrid.awayWin > 0 /\ correctScoreGrid.draw > 0
  /\ correctScoreGrid.grid[10][10] > 0

\* the goals a grid index stands for when totals are compared: the tail counts as 10
Goals(index) == IF index = 10 THEN 10 ELSE index

\* C7: for each line t in {1.5, 2.5, 3.5}, over_t is the sum of the cells whose combined
\* goal count exceeds t, under_t the sum of all other cells, the tail index counting as
\* 10 goals; hence over_t + under_t is the grid total.
C7_OverUnderSplitGrid ==
  gridPc \in {"card", "done"} =>
    LET grid == correctScoreGrid.grid
        cells == GridCells(grid)
        Over(t2) == SumCells(grid, {c \in cells : 2 * (Goals(c[1]) + Goals(c[2])) > t2})
        Under(t2) == SumCells(grid, {c \in cells : ~(2 * (Goals(c[1]) + Goals(c[2])) > t2)})
    IN /\ summaryMarkets.over15 = Over(3) /\ summaryMarkets.under15 = Under(3)
       /\ summaryMarkets.over25 = Over(5) /\ summaryMarkets.under25 = Under(5)
       /\ summaryMarkets.over35 = Over(7) /\ summaryMarkets.under35 = Under(7)
       /\ summaryMarkets.over15 + summaryMarkets.under15 = GridTotal(grid)
       /\ summaryMarkets.over25 + summaryMarkets.under25 = GridTotal(grid)
       /\ summaryMarkets.over35 + summaryMarkets.under35 = GridTotal(grid)

\* market totals of a grid in which the three lines differ and the tail has mass
C7_Witness ==
  /\ gridPc = "card" /\ lambdaHome = 12 /\ lambdaAway = 6
  /\ summaryMarkets.over15 > summaryMarkets.over25
  /\ summaryMarkets.over25 > summaryMarkets.over35
  /\ summaryMarkets.over35 > 0 /\ summaryMarkets.under15 > 0
  /\ correctScoreGrid.grid[10][0] > 0

\* C8: both-teams-to-score "No" of the prediction is (sum of grid row 0) + (sum of grid
\* column 0) - cell[0][0], "Yes" is 1 - "No", and Yes + No = 1, for every grid built from
\* two scoring distributions.
C8_BttsInclusionExclusion ==
  gridPc \in {"card", "done"} =>
    LET grid == correctScoreGrid.grid
        row0 == SumCells(grid, {c \in GridCells(grid) : c[1] = 0})
        col0 == SumCells(grid, {c \in GridCells(grid) : c[2] = 0})
    IN /\ summaryMarkets.bttsNo = row0 + col0 - grid[0][0]
       /\ summaryMarkets.bttsYes = GridOne - summaryMarkets.bttsNo
       /\ summaryMarkets.bttsYes + summaryMarkets.bttsNo = GridOne

\* both-teams-to-score figures of a grid where row 0 and column 0 differ
C8_Witness ==
  /\ gridPc = "card" /\ lambdaHome = 12 /\ lambdaAway = 6
  /\ summaryMarkets.bttsYes > 0
  /\ summaryMarkets.bttsNo > correctScoreGrid.grid[0][0]
  /\ correctScoreGrid.grid[0][1] # correctScoreGrid.grid[1][0]

\* the lambda a call returns for a given multiplier (in thousandths)
LambdaWith(call, multiplier) ==
  Max(0, (IF call.xGoalsByForm = NULL THEN 0 ELSE call.xGoalsByForm) * multiplier)

\* C9: the multiplier is exactly 1 for every delta strictly inside (-0.25, 0.25) and the
\* table saturates: every delta >= 2.0 gives 0.75, every delta <= -2.0 gives 1.25.
C9_DeadBandAndSaturation ==
  \A call \in {c \in {lastCall, prevCall} : c.called /\ c.goalsVAvg # NULL} :
    /\ (-250 < call.goalsVAvg /\ call.goalsVAvg < 250) => call.multiplier = 1000
    /\ call.goalsVAvg >= 2000 => call.multiplier = 750
    /\ call.goalsVAvg <= -2000 => call.multiplier = 1250
    /\ call = lastCall => call.lambda = LambdaWith(call, call.multiplier)

\* a call with delta = +5 after a call with delta = +2.5
C9_Witness ==
  /\ lastCall.called /\ lastCall.goalsVAvg = 5000 /\ lastCall.xGoalsByForm = 1200
  /\ lastCall.lambda = 900000
  /\ prevCall.called /\ prevCall.goalsVAvg = 2500 /\ prevCall.multiplier = 750

\* the deviation band of a delta: 1..8 for [0.25, 0.5) .. [2.0, oo), -1..-8 for
\* (-0.5, -0.25] .. (-oo, -2.0], 0 for the dead band
Band(delta) ==
  IF delta >= 250 THEN Min(8, delta \div 250)
  ELSE IF delta <= -250 THEN -Min(8, (-delta) \div 250)
  ELSE 0

BandShape(call) ==
  /\ 750 <= call.multiplier /\ call.multiplier <= 1250
  /\ Band(call.delta) > 0 => call.multiplier < 1000
  /\ Band(call.delta) < 0 => call.multiplier > 1000

\* C10: the multiplier is selected from 16 bands with edges at +/-0.25 .. +/-2.0, each
\* band has its own multiplier (no two bands share one), every multiplier is within
\* 0.75..1.25, below 1 on positive bands and above 1 on negative bands.
C10_EachBandOwnMultiplier ==
  (lastCall.called /\ prevCall.called) =>
    /\ BandShape(lastCall)
    /\ Band(lastCall.delta) = Band(prevCall.delta) => lastCall.multiplier = prevCall.multiplier
    /\ (Band(lastCall.delta) # 0 /\ Band(prevCall.delta) # 0
          /\ Band(lastCall.delta) # Band(prevCall.delta)) =>
         lastCall.multiplier # prevCall.multiplier

\* the pairs of neighbouring bands that share a multiplier: [1.0, 1.25) with
\* [1.25, 1.5), and (-1.5, -1.25] with (-1.25, -1.0]
SharedBands == {{4, 5}, {-4, -5}}

\* C10 as amended: the multiplier depends only on the band, never increases with the
\* band, and differs between two bands except within a pair of SharedBands (14 distinct
\* multipliers over the 16 bands); range and direction as claimed.
C10_BandsAmended ==
  (lastCall.called /\ prevCall.called) =>
    /\ BandShape(lastCall)
    /\ Band(lastCall.delta) = Band(prevCall.delta) => lastCall.multiplier = prevCall.multiplier
    /\ Band(lastCall.delta) > Band(prevCall.delta) =>
         /\ lastCall.multiplier <= prevCall.multiplier
         /\ lastCall.multiplier = prevCall.multiplier
              <=> {Band(lastCall.delta), Band(prevCall.delta)} \in SharedBands

\* two calls in the neighbouring bands [1.0, 1.25) and [1.25, 1.5)
C10_Witness ==
  /\ lastCall.called /\ prevCall.called
  /\ prevCall.delta = 1000 /\ lastCall.delta = 1250
  /\ Band(prevCall.delta) = 4 /\ Band(lastCall.delta) = 5
  /\ lastCall.multiplier = 900 /\ prevCall.multiplier = 900


\* the multiplier of each deviation band, in thousandths
BandMultiplier ==
  [b \in -8..8 |->
     IF b = 8 THEN 750 ELSE IF b = 7 THEN 800 ELSE IF b = 6 THEN 850
     ELSE IF b \in {4, 5} THEN 900 ELSE IF b = 3 THEN 950 ELSE IF b = 2 THEN 975
     ELSE IF b = 1 THEN 990 ELSE IF b = 0 THEN 1000 ELSE IF b = -1 THEN 1010
     ELSE IF b = -2 THEN 1025 ELSE IF b = -3 THEN 1050 ELSE IF b \in {-4, -5} THEN 1100
     ELSE IF b = -6 THEN 1150 ELSE IF b = -7 THEN 1200 ELSE 1250]

\* an argument of applyDeviationControl with absent or NaN read as 0
OrZero(x) == IF x = NULL THEN 0 ELSE x

\* C11: the lambda returned by applyDeviationControl is >= 0 and equals
\* max(0, blended x multiplier) for every blended value and delta, absent or NaN
\* arguments being treated as 0.
C11_LambdaIsClampedProduct ==
  lastCall.called =>
    /\ lastCall.lambda >= 0
    /\ lastCall.lambda =
         Max(0, OrZero(lastCall.xGoalsByForm) * BandMultiplier[Band(OrZero(lastCall.goalsVAvg))])

\* a negative blended figure with a boosting multiplier is floored at 0, after a call
\* whose delta was absent
C11_Witness ==
  /\ lastCall.called /\ lastCall.xGoalsByForm = -400 /\ lastCall.goalsVAvg = -2000
  /\ lastCall.multiplier = 1250 /\ lastCall.lambda = 0
  /\ prevCall.called /\ prevCall.goalsVAvg = NULL /\ prevCall.multiplier = 1000

\* positions of the matches that pass the role filter
PassingAt(ms, r) == {i \in 1..Len(ms) : PassesRole(ms[i], r)}

\* C15: the categorical totals count every match that passes the role filter, whether
\* or not any metric is present on it: gamesPlayed is the number of passing matches and
\* homeWin, draw, awayWin count them by result tag.
C15_TotalsCountEveryPassingMatch ==
  aggPc = "done" =>
    LET at == PassingAt(matchesInWindow, role) IN
    /\ agg.totals.gamesPlayed = Cardinality(at)
    /\ agg.totals.homeWin = Cardinality({i \in at : matchesInWindow[i].FTR = "H"})
    /\ agg.totals.draw = Cardinality({i \in at : matchesInWindow[i].FTR = "D"})
    /\ agg.totals.awayWin = Cardinality({i \in at : matchesInWindow[i].FTR = "A"})

\* a counted match has no metric at all and no result tag, next to a counted away win
\* whose home goals are absent
C15_Witness ==
  /\ aggPc = "done" /\ role.awayTeam = "Y"
  /\ \E i \in PassingAt(matchesInWindow, role) :
       \A key \in MetricKeySet : matchesInWindow[i][key] = NULL
  /\ \E i \in 1..Len(matchesInWindow) : ~PassesRole(matchesInWindow[i], role)
  /\ agg.totals.gamesPlayed = 2 /\ agg.totals.awayWin = 1
  /\ agg.totals.homeWin = 0 /\ agg.totals.draw = 0
  /\ agg.averages["FTHG"] = NullAvg

\* both goals fields of a match are present
BothGoals(match) == match.FTHG # NULL /\ match.FTAG # NULL

\* C16: a match adds to over-2.5 or under-2.5 only when both its home and away goals
\* are present, and then to exactly one of the two; a match with a goals field absent
\* adds to neither.
C16_OverUnderNeedBothGoals ==
  aggPc = "done" =>
    LET at == {i \in PassingAt(matchesInWindow, role) : BothGoals(matchesInWindow[i])}
        Goals25(i) == matchesInWindow[i].FTHG + matchesInWindow[i].FTAG
    IN /\ agg.totals.over25 = Cardinality({i \in at : Goals25(i) >= 3})
       /\ agg.totals.under25 = Cardinality({i \in at : Goals25(i) <= 2})
       /\ agg.totals.over25 + agg.totals.under25 = Cardinality(at)

\* three counted matches: one over, one under, one with only its away goals present
C16_Witness ==
  /\ aggPc = "done" /\ role = NoRole
  /\ agg.totals.gamesPlayed = 3 /\ agg.totals.over25 = 1 /\ agg.totals.under25 = 1
  /\ \E i \in 1..Len(matchesInWindow) :
       matchesInWindow[i].FTHG = NULL /\ matchesInWindow[i].FTAG = 3

\* C17: aggregating with a role filter is aggregating, without filter, the
\* sub-collection of matches in that role; without filter every match is aggregated.
C17_RoleFilterIsSubCollection ==
  aggPc = "done" =>
    LET InRole(match) ==
          /\ role.homeTeam # "" => match.HomeTeam = role.homeTeam
          /\ role.awayTeam # "" => match.AwayTeam = role.awayTeam
    IN /\ agg = computeAggregates(SelectSeq(matchesInWindow, InRole), NoRole)
       /\ role = NoRole => agg.totals.gamesPlayed = Len(matchesInWindow)

\* an away-role aggregate that leaves out a match of the window and keeps two
C17_Witness ==
  /\ aggPc = "done" /\ role.awayTeam = "Y" /\ Len(matchesInWindow) = 3
  /\ agg.totals.gamesPlayed = 2
  /\ \E i \in 1..3 : matchesInWindow[i].AwayTeam = "Z"
  /\ agg.averages["FTAG"] # NullAvg

\* C18: for an absent or unparseable fixture date filterMatches returns the empty
\* collection, whatever the match collection contains.
C18_NoFixtureDateGivesEmpty ==
  (aggPc \in {"aggregate", "done"} /\ fixtureDateISO \in {NoDate, BadDate}) =>
    matchesInWindow = <<>>

\* the filter has run without a fixture date on a collection of two dated records
C18_Witness ==
  /\ aggPc = "aggregate" /\ fixtureDateISO = NoDate /\ Len(matches) = 2
  /\ \A i \in 1..2 : matches[i].dateISO \in 0..MaxDay
  /\ matchesInWindow = <<>>

\* an aggregate's average as a fraction <<sum, count>>, an absent one as 0
Frac(source, key) ==
  IF source.averages[key] = NullAvg THEN <<0, 1>> ELSE source.averages[key]

\* the fraction is at least the epsilon of safeDiv
Positive(f) == f[1] * 10000 >= f[2]

\* x is the finite number top / bottom, for fractions top and bottom > 0
IsRatio(x, top, bottom) ==
  x.d # 0 /\ x.n * bottom[1] * top[2] = x.d * top[1] * bottom[2]

\* C12: with a positive league average, each attack score is the team's "for" goals
\* average over the league's same-side average (home: FTHG / league FTHG; away:
\* FTAG / league FTAG) and each defence score is the team's "against" goals average
\* over the league's opposite-side average (home: FTAG / league FTAG; away:
\* FTHG / league FTHG).
C12_ScoresAreRatiosToLeague ==
  predPc = "done" =>
    /\ Positive(Frac(leagueAgg, "FTHG")) =>
         /\ IsRatio(predicted.HomeAttackScore, Frac(homeAgg, "FTHG"), Frac(leagueAgg, "FTHG"))
         /\ IsRatio(predicted.AwayDefenceScore, Frac(awayAgg, "FTHG"), Frac(leagueAgg, "FTHG"))
    /\ Positive(Frac(leagueAgg, "FTAG")) =>
         /\ IsRatio(predicted.AwayAttackScore, Frac(awayAgg, "FTAG"), Frac(leagueAgg, "FTAG"))
         /\ IsRatio(predicted.HomeDefenceScore, Frac(homeAgg, "FTAG"), Frac(leagueAgg, "FTAG"))

\* league 1.5 / 1.2, home side 2.0 scored and 1.0 conceded, away side 0.8 scored and
\* 1.5 conceded: the four scores are 4/3, 5/6, 2/3 and 1
C12_Witness ==
  /\ predPc = "done"
  /\ leagueAgg = LeagueProfile /\ homeAgg = HomeProfile /\ awayAgg = AwayProfile
  /\ predicted.HomeAttackScore = [n |-> 4, d |-> 3]
  /\ predicted.HomeDefenceScore = [n |-> 5, d |-> 6]
  /\ predicted.AwayAttackScore = [n |-> 2, d |-> 3]
  /\ predicted.AwayDefenceScore = [n |-> 1, d |-> 1]

\* x = (for / base) * (against / base) * base for a positive league baseline, and 0
\* for a baseline that is zero or absent
IsExpected(x, for, against, base) ==
  IF Positive(base)
    THEN x.d # 0 /\ x.n * for[2] * against[2] * base[1] = x.d * for[1] * against[1] * base[2]
    ELSE base[1] = 0 /\ x = [n |-> 0, d |-> 1]

\* C13: the expected value of a side is its attack score times the opponent's defence
\* score times the league baseline of that side, for goals, for shots and for shots
\* on target, each with its own baseline and its own for/against averages.
C13_ExpectedIsAttackDefenceBaseline ==
  predPc = "done" =>
    /\ predicted.Home_xG_Goals =
         Times(Times(predicted.HomeAttackScore, predicted.AwayDefenceScore),
               avg(leagueAgg, "FTHG"))
    /\ predicted.Away_xG_Goals =
         Times(Times(predicted.AwayAttackScore, predicted.HomeDefenceScore),
               avg(leagueAgg, "FTAG"))
    /\ IsExpected(predicted.Home_xG_Goals, Frac(homeAgg, "FTHG"), Frac(awayAgg, "FTHG"),
                  Frac(leagueAgg, "FTHG"))
    /\ IsExpected(predicted.Away_xG_Goals, Frac(awayAgg, "FTAG"), Frac(homeAgg, "FTAG"),
                  Frac(leagueAgg, "FTAG"))
    /\ IsExpected(predicted.Home_xShots, Frac(homeAgg, "HS"), Frac(awayAgg, "HS"),
                  Frac(leagueAgg, "HS"))
    /\ IsExpected(predicted.Away_xShots, Frac(awayAgg, "AS"), Frac(homeAgg, "AS"),
                  Frac(leagueAgg, "AS"))
    /\ IsExpected(predicted.Home_xSOT, Frac(homeAgg, "HST"), Frac(awayAgg, "HST"),
                  Frac(leagueAgg, "HST"))
    /\ IsExpected(predicted.Away_xSOT, Frac(awayAgg, "AST"), Frac(homeAgg, "AST"),
                  Frac(leagueAgg, "AST"))

\* the same three profiles: 2 and 2/3 expected goals, 4 and 2 expected shots, 0 and 1
\* expected shots on target
C13_Witness ==
  /\ predPc = "done"
  /\ leagueAgg = LeagueProfile /\ homeAgg = HomeProfile /\ awayAgg = AwayProfile
  /\ predicted.Home_xG_Goals = [n |-> 2, d |-> 1]
  /\ predicted.Away_xG_Goals = [n |-> 2, d |-> 3]
  /\ predicted.Home_xShots = [n |-> 4, d |-> 1]
  /\ predicted.Away_xShots = [n |-> 2, d |-> 1]
  /\ predicted.Home_xSOT = [n |-> 0, d |-> 1]
  /\ predicted.Away_xSOT = [n |-> 1, d |-> 1]

\* C14: four times the blended expected goals of a side are twice its goals-model
\* expected goals, plus its expected shots times the opponent's goals-per-shot-allowed
\* ratio, plus its expected shots on target times the opponent's
\* goals-per-shot-on-target-allowed ratio; each ratio is the opponent's own average of
\* goals conceded over its own average of shots (on target) faced.
C14_BlendOfThreeModels ==
  predPc = "done" =>
    /\ Times(Num(4, 1), predicted.Home_xGoalsByForm) =
         Plus(Plus(Times(Num(2, 1), predicted.Home_xG_Goals),
                   Times(predicted.Home_xShots, predicted.AwayGoalsPerShotAgainst)),
              Times(predicted.Home_xSOT, predicted.AwayGoalsPerSOTAgainst))
    /\ Times(Num(4, 1), predicted.Away_xGoalsByForm) =
         Plus(Plus(Times(Num(2, 1), predicted.Away_xG_Goals),
                   Times(predicted.Away_xShots, predicted.HomeGoalsPerShotAgainst)),
              Times(predicted.Away_xSOT, predicted.HomeGoalsPerSOTAgainst))
    /\ Positive(Frac(awayAgg, "HS")) =>
         IsRatio(predicted.AwayGoalsPerShotAgainst, Frac(awayAgg, "FTHG"), Frac(awayAgg, "HS"))
    /\ Positive(Frac(awayAgg, "HST")) =>
         IsRatio(predicted.AwayGoalsPerSOTAgainst, Frac(awayAgg, "FTHG"), Frac(awayAgg, "HST"))
    /\ Positive(Frac(homeAgg, "AS")) =>
         IsRatio(predicted.HomeGoalsPerShotAgainst, Frac(homeAgg, "FTAG"), Frac(homeAgg, "AS"))
    /\ Positive(Frac(homeAgg, "AST")) =>
         IsRatio(predicted.HomeGoalsPerSOTAgainst, Frac(homeAgg, "FTAG"), Frac(homeAgg, "AST"))

\* the same three profiles: the home blend is 0.5 * 2 + 0.25 * (4 * 3/8) + 0.25 * 0,
\* the away blend 0.5 * 2/3 + 0.25 * (2 * 1/3) + 0.25 * (1 * 1)
C14_Witness ==
  /\ predPc = "done"
  /\ leagueAgg = LeagueProfile /\ homeAgg = HomeProfile /\ awayAgg = AwayProfile
  /\ predicted.AwayGoalsPerShotAgainst = [n |-> 3, d |-> 8]
  /\ predicted.HomeGoalsBy_xShots = [n |-> 3, d |-> 2]
  /\ predicted.Home_xGoalsByForm = [n |-> 11, d |-> 8]
  /\ predicted.Away_xGoalsByForm = [n |-> 3, d |-> 4]

\* every average absent and every total 0
AllAbsentAgg(a) ==
  /\ \A key \in MetricKeySet : a.averages[key] = NullAvg
  /\ a.totals.gamesPlayed = 0 /\ a.totals.homeWin = 0 /\ a.totals.draw = 0
  /\ a.totals.awayWin = 0 /\ a.totals.over25 = 0 /\ a.totals.under25 = 0

\* all the mass on 0 goals
Degenerate(dist) ==
  /\ dist.probs[0] = ONE
  /\ \A k \in 1..MaxGoals : dist.probs[k] = 0
  /\ dist.probs9Plus = 0

\* C19: in a request, an absent or unparseable fixture date leaves the window empty;
\* with an empty window the home, away and league aggregates have every average absent
\* and every total 0, the final lambda of both sides is 0 and both distributions have
\* all their mass on 0 goals.
C19_EmptyWindowEndToEnd ==
  /\ (predPc \in {"predict", "done"} /\ aggPc = "done"
      /\ fixtureDateISO \in {NoDate, BadDate}) => matchesInWindow = <<>>
  /\ (predPc \in {"predict", "done"} /\ aggPc = "done" /\ matchesInWindow = <<>>) =>
       AllAbsentAgg(homeAgg) /\ AllAbsentAgg(awayAgg) /\ AllAbsentAgg(leagueAgg)
  /\ (predPc = "done" /\ aggPc = "done" /\ matchesInWindow = <<>>) =>
       /\ predicted.HGoalsFormDevi = [n |-> 0, d |-> 1]
       /\ predicted.AGoalsFormDevi = [n |-> 0, d |-> 1]
       /\ Degenerate(predicted.homePoisson) /\ Degenerate(predicted.awayPoisson)

\* a request over two records with figures and an unparseable fixture date, carried
\* through to its predictions
C19_Witness ==
  /\ predPc = "done" /\ aggPc = "done" /\ fixtureDateISO = BadDate
  /\ Len(matches) = 2 /\ \A i \in 1..2 : matches[i].FTHG = 2
  /\ matchesInWindow = <<>>
  /\ predicted.homePoisson.probs[0] = ONE

\* C20: for aggregates whose averages are absent or finite and non-negative, every
\* numeric field of the result of computePredictions is a finite number; a score
\* against a league baseline that is zero or absent is the team's average, 0 for an
\* absent one, over the epsilon 0.0001.
C20_PredictionsAreFinite ==
  predPc = "done" =>
    /\ \A f \in NumFields : predicted[f].d # 0
    /\ \A k \in 0..MaxGoals :
         /\ predicted.homePoisson.probs[k] \in 0..ONE
         /\ predicted.awayPoisson.probs[k] \in 0..ONE
    /\ Frac(leagueAgg, "FTHG")[1] = 0 =>
         IsRatio(predicted.HomeAttackScore, Frac(homeAgg, "FTHG"), <<1, 10000>>)
    /\ Frac(awayAgg, "HST")[1] = 0 =>
         IsRatio(predicted.AwayGoalsPerSOTAgainst, Frac(awayAgg, "FTHG"), <<1, 10000>>)

\* no league baseline at all, and an away side with a zero average of shots on target
C20_Witness ==
  /\ predPc = "done"
  /\ leagueAgg = EmptyAgg /\ homeAgg = HomeProfile /\ awayAgg = AwayProfile
  /\ predicted.HomeAttackScore = [n |-> 20000, d |-> 1]
  /\ predicted.AwayGoalsPerSOTAgainst = [n |-> 15000, d |-> 1]
  /\ predicted.Home_xG_Goals = [n |-> 0, d |-> 1]

\* C21: with lambda = 0 on both sides each distribution has P(0) = 1 and every other
\* bucket, the tail included, 0; grid cell [0][0] is 1 and every other cell 0; home win,
\* draw and away win are 0, 1 and 0; BTTS No is 1 and BTTS Yes 0.
C21_ZeroLambdaIsGoallessDraw ==
  (lambdaHome = 0 /\ lambdaAway = 0) =>
    /\ gridPc \in {"grid", "markets", "card", "table", "done"} =>
         /\ homePoisson.probs[0] = ONE /\ awayPoisson.probs[0] = ONE
         /\ \A k \in 1..MaxGoals : homePoisson.probs[k] = 0 /\ awayPoisson.probs[k] = 0
         /\ homePoisson.probs9Plus = 0 /\ awayPoisson.probs9Plus = 0
    /\ gridPc \in {"markets", "card", "table", "done"} =>
         /\ \A c \in GridCells(correctScoreGrid.grid) :
              correctScoreGrid.grid[c[1]][c[2]] = IF c = <<0, 0>> THEN GridOne ELSE 0
         /\ correctScoreGrid.homeWin = 0 /\ correctScoreGrid.draw = GridOne
         /\ correctScoreGrid.awayWin = 0
    /\ gridPc \in {"card", "table", "done"} =>
         summaryMarkets.bttsNo = GridOne /\ summaryMarkets.bttsYes = 0
    /\ gridPc \in {"table", "done"} => summaryCard.bttsNo = GridOne /\ summaryCard.bttsYes = 0

\* both lambdas 0, carried through to the summary card
C21_Witness ==
  /\ gridPc = "done" /\ lambdaHome = 0 /\ lambdaAway = 0
  /\ correctScoreGrid.grid[0][0] = GridOne /\ correctScoreGrid.draw = GridOne
  /\ summaryCard.bttsNo = GridOne

\* the value of the cell c = <<row, col>> of the grid
CellValue(c) == correctScoreGrid.grid[c[1]][c[2]]

PositiveCells == {c \in GridCells(correctScoreGrid.grid) : CellValue(c) > 0}

\* c ranks before d: larger probability, then lower row, then lower column
RowFirst(c, d) ==
  \/ CellValue(c) > CellValue(d)
  \/ CellValue(c) = CellValue(d) /\ (c[1] < d[1] \/ (c[1] = d[1] /\ c[2] < d[2]))

\* c ranks before d: larger probability, then lower row + column, then lower row
SumFirst(c, d) ==
  \/ CellValue(c) > CellValue(d)
  \/ CellValue(c) = CellValue(d)
       /\ (c[1] + c[2] < d[1] + d[2] \/ (c[1] + c[2] = d[1] + d[2] /\ c[1] < d[1]))

\* C22 as stated: ranks 1, 2, 3 go to the first three of all the grid cells ordered by
\* probability descending, ties by lower row + column index and then by lower row index.
C22_TopThreeOfAllCells ==
  gridPc = "done" =>
    /\ Len(topScores) = 3
    /\ \A k \in 1..Len(topScores) :
         \A d \in GridCells(correctScoreGrid.grid) \ {topScores[j] : j \in 1..k} :
           SumFirst(topScores[k], d)

\* C22, amended: the ranks go to the cells of positive probability only, at most three
\* of them, ordered by probability descending, ties by lower row index and then by
\* lower column index.
C22_TopThreeOfPositiveCells ==
  gridPc = "done" =>
    /\ Len(topScores) = Min(3, Cardinality(PositiveCells))
    /\ \A k \in 1..Len(topScores) :
         /\ topScores[k] \in PositiveCells
         /\ \A d \in PositiveCells \ {topScores[j] : j \in 1..k} : RowFirst(topScores[k], d)

\* lambda 1.0 on both sides: the cells 0-0, 0-1, 1-0 and 1-1 are equally probable and the
\* first three of them, row by row, are ranked
C22_Witness ==
  /\ gridPc = "done" /\ lambdaHome = 4 /\ lambdaAway = 4
  /\ topScores = <<<<0, 0>>, <<0, 1>>, <<1, 0>>>>
  /\ CellValue(<<0, 0>>) = CellValue(<<1, 1>>)


\* an aggregate with every absent average replaced by a present average of 0
ZeroFilled(aggr) ==
  [averages |-> [key \in MetricKeySet |->
                   IF aggr.averages[key] = NullAvg THEN <<0, 1>> ELSE aggr.averages[key]],
   totals |-> aggr.totals]

\* one of the averages computePredictions reads is absent
HasAbsent(aggr) == \E key \in PredictionKeys : aggr.averages[key] = NullAvg

\* C23 as stated: the PredictionResult computed from aggregates with an absent average
\* differs from the one computed from the same aggregates with 0 in place of the
\* absent averages, so that absent and zero inputs can be told apart in the output.
C23_AbsentNeverReadsAsZero ==
  (predPc = "done" /\ (HasAbsent(homeAgg) \/ HasAbsent(awayAgg) \/ HasAbsent(leagueAgg))) =>
    predicted # computePredictions(ZeroFilled(homeAgg), ZeroFilled(awayAgg),
                                   ZeroFilled(leagueAgg))

\* C23, amended: the three AggregateResults keep absent apart from zero (an average is
\* absent exactly when no role-filtered match has the metric, whatever the values
\* present), while the PredictionResult reads every absent average as 0 and so equals
\* the one computed from averages of 0.
C23_AggregatesKeepAbsentPredictionsReadZero ==
  predPc = "done" =>
    /\ aggPc = "done" =>
         \A key \in MetricKeySet :
           /\ homeAgg.averages[key] = NullAvg <=> PresentAt(matchesInWindow, HomeRole, key) = {}
           /\ awayAgg.averages[key] = NullAvg <=> PresentAt(matchesInWindow, AwayRole, key) = {}
           /\ leagueAgg.averages[key] = NullAvg <=> PresentAt(matchesInWindow, NoRole, key) = {}
    /\ predicted = computePredictions(ZeroFilled(homeAgg), ZeroFilled(awayAgg),
                                      ZeroFilled(leagueAgg))

\* a request whose home aggregate has one average absent and another present and equal
\* to 0, with its predictions computed
C23_Witness ==
  /\ predPc = "done" /\ aggPc = "done"
  /\ \E key \in PredictionKeys : homeAgg.averages[key] = NullAvg
  /\ \E key \in PredictionKeys :
       homeAgg.averages[key] # NullAvg /\ homeAgg.averages[key][1] = 0


\* the tables a request shows when all of its work is done on the collection published
\* as version v
TablesFrom(v) ==
  LET fixture == getSelectedFixture(FixturesFile[tablesEl.leagueCode], tablesEl.fixtureId)[1]
      window == filterMatches(LeagueFile(tablesEl.leagueCode, v), fixture.dateISO,
                              tablesEl.windowDays, tzone)
      hAgg == computeAggregates(window, [homeTeam |-> fixture.homeTeam, awayTeam |-> ""])
      aAgg == computeAggregates(window, [homeTeam |-> "", awayTeam |-> fixture.awayTeam])
      lAgg == computeAggregates(window, NoRole)
  IN [homeAgg |-> hAgg, awayAgg |-> aAgg, leagueAgg |-> lAgg,
      predictions |-> computePredictions(hAgg, aAgg, lAgg)]

\* C24: the home, away and league aggregates and the predictions shown by a request
\* are all computed from one and the same published collection of its league, whatever
\* was loaded or published between and during the requests.
C24_OneSnapshotPerRequest ==
  tablesEl # NoTables =>
    \E v \in 1..MaxVersion :
      \E t \in {TablesFrom(v)} :
        /\ tablesEl.homeAgg = t.homeAgg
        /\ tablesEl.awayAgg = t.awayAgg
        /\ tablesEl.leagueAgg = t.leagueAgg
        /\ tablesEl.predictions = t.predictions

\* the tables of a request answered from a collection loaded before the data files
\* were replaced, shown while another league is cached in its later version
C24_Witness ==
  /\ tablesEl # NoTables /\ tablesEl.version = 1 /\ serverVersion = 2
  /\ \E l \in Leagues \ {tablesEl.leagueCode} : leagueMatchesCache[l].version = 2
  /\ TablesFrom(1).leagueAgg # TablesFrom(2).leagueAgg


\* C25: the result of filterMatches depends only on its arguments: the window returned
\* for a collection, a fixture date and a window length is the one returned for them
\* under any setting of the host, the time zone included.
C25_FilterDependsOnArgumentsOnly ==
  aggPc \in {"aggregate", "done"} =>
    \A z \in Zones : matchesInWindow = filterMatches(matches, fixtureDateISO, windowDays, z)


\* lambda as poissonProbabilities uses it: 0 in place of an absent or negative value
SafeLambda(lambda) == IF lambda = NULL \/ lambda < 0 THEN 0 ELSE lambda

\* dist is the distribution of the claim for lambda (in quarters)
IsPoissonOf(dist, lambda) ==
  /\ DOMAIN dist.probs = 0..MaxGoals
  /\ dist.probs[0] = ExpNeg(SafeLambda(lambda))
  /\ \A k \in 1..MaxGoals : dist.probs[k] = (dist.probs[k - 1] * SafeLambda(lambda)) \div (4 * k)
  /\ dist.probs9Plus = Max(0, ONE - SumOver(dist.probs, 0..MaxGoals))

\* C26: poissonProbabilities(lambda) returns exactly the 10 values P(0..MaxGoals) with
\* P(0) = e^-lambda and P(k) = P(k-1) * lambda / k, and the tail max(0, 1 - their sum);
\* a negative or absent lambda gives the distribution of lambda 0.
C26_PoissonRecurrenceAndTail ==
  gridPc # "poisson" =>
    /\ IsPoissonOf(homePoisson, lambdaHome)
    /\ IsPoissonOf(awayPoisson, lambdaAway)
    /\ (lambdaHome = NULL \/ lambdaHome < 0) =>
         homePoisson = [probs |-> [k \in 0..MaxGoals |-> IF k = 0 THEN ONE ELSE 0], probs9Plus |-> 0]
    /\ (lambdaAway = NULL \/ lambdaAway < 0) =>
         awayPoisson = [probs |-> [k \in 0..MaxGoals |-> IF k = 0 THEN ONE ELSE 0], probs9Plus |-> 0]

\* a negative home lambda giving all mass to 0 goals, and an away lambda of 4 with mass
\* on every count up to 9 and in the tail
C26_Witness ==
  /\ gridPc = "grid"
  /\ lambdaHome = -2 /\ homePoisson.probs[0] = ONE
  /\ lambdaAway = 16 /\ awayPoisson.probs[3] > awayPoisson.probs[0]
  /\ awayPoisson.probs[MaxGoals] > 0 /\ awayPoisson.probs9Plus > 0


\* a field is missing from the row: its column has no header or its cell is undefined
MissingField(column) == column \notin csvRow.headers \/ csvRow.cells[column] = Undefined

BlankText(text) == \A i \in 1..Len(text) : text[i] = " "

\* a text that is no decimal numeral once its surrounding blanks are dropped: it has a
\* character other than digits, point and leading minus, a blank between other
\* characters, two points, or no digit
NonNumericText(text) ==
  LET first == CHOOSE i \in 1..Len(text) : text[i] # " " /\ \A j \in 1..(i - 1) : text[j] = " "
      last == CHOOSE i \in 1..Len(text) : text[i] # " " /\ \A j \in (i + 1)..Len(text) : text[j] = " "
  IN ~BlankText(text) /\
     \/ \E i \in first..last : text[i] \notin DOMAIN DigitValue /\ text[i] # "." /\ ~(text[i] = "-" /\ i = first)
     \/ Cardinality({i \in first..last : text[i] = "."}) > 1
     \/ \A i \in first..last : text[i] \notin DOMAIN DigitValue

\* a text with and without blanks around it
Padded(text) == {text, <<" ">> \o text, text \o <<" ">>, <<" ">> \o text \o <<" ">>}

\* C27: every numeric field of a normalized match record is null when the CSV field is
\* missing, blank or not a numeral, and is the number the field holds otherwise ("0"
\* gives 0, never null, and no unknown field gives 0): the field is a number or null.
C27_UnknownFieldsBecomeNull ==
  (ingestPc = "done" /\ normalized # Null) =>
    \A column \in NumericColumns :
      LET out == normalized.numbers[column] IN
      IF MissingField(column) THEN out = Null
      ELSE LET text == csvRow.cells[column] IN
           /\ (BlankText(text) \/ NonNumericText(text)) <=> out = Null
           /\ out # Null => out.d > 0
           /\ \A n \in 0..MaxFieldNumber : text \in Padded(DigitsOf(n)) => out = Num(n, 1)
           /\ text = <<"2", ".", "5">> => out = Num(5, 2)

\* a row with home goals "0" read as the number 0, blank away goals read as null, a
\* column without header read as null and odds of "1.9" read as 1.9
C27_Witness ==
  /\ ingestPc = "done" /\ normalized # Null
  /\ csvRow.cells["FTHG"] = <<"0">> /\ normalized.numbers["FTHG"] = Zero
  /\ csvRow.cells["FTAG"] = <<" ">> /\ normalized.numbers["FTAG"] = Null
  /\ "AvgUnder25" \notin csvRow.headers /\ normalized.numbers["AvgUnder25"] = Null
  /\ normalized.numbers["AvgH"] = Num(19, 10)


\* C28: for two distributions that each sum to 1, the over/under 1.5, 2.5, 3.5 and BTTS
\* yes/no figures displayed by buildSummaryCard equal the fields of the same names
\* computed by computeSummaryMarkets from the grid of the two distributions.
C28_CardAgreesWithMarkets ==
  (gridPc \in {"table", "done"} /\ DistSum(homePoisson) = ONE /\ DistSum(awayPoisson) = ONE) =>
    \A key \in {"over15", "under15", "over25", "under25", "over35", "under35",
                "bttsYes", "bttsNo"} :
      summaryCard[key] = summaryMarkets[key]

\* lambdas of 1.5 and 1: every displayed figure lies strictly between 0 and 1, and the
\* cell 0-0 counted in both row 0 and column 0 is positive
C28_Witness ==
  /\ gridPc = "table" /\ lambdaHome = 6 /\ lambdaAway = 4
  /\ correctScoreGrid.grid[0][0] > 0
  /\ \A key \in {"over15", "under15", "over25", "under25", "over35", "under35",
                 "bttsYes", "bttsNo"} :
       summaryCard[key] > 0 /\ summaryCard[key] < GridOne


\* C29: once a load of a league has completed, its cached collection is the one every
\* later call gets: the entry of a loaded league never changes; a failed fetch leaves
\* the cache as it is; and an entry changes only for the league of a request in flight.
C29_CacheKeepsFirstLoad ==
  [][/\ \A l \in Leagues :
          leagueMatchesCache[l].has => leagueMatchesCache'[l] = leagueMatchesCache[l]
     /\ (\E i \in 1..MaxRequests : outcome[i] = "pending" /\ outcome'[i] = "failed") =>
          leagueMatchesCache' = leagueMatchesCache
     /\ \A l \in Leagues :
          leagueMatchesCache'[l] # leagueMatchesCache[l] =>
            \E req \in inflight : req.leagueCode = l /\ req \notin inflight']_vars


\* C30: building the grid with the home and away distributions (and their tails)
\* exchanged gives the transposed grid, with homeWin and awayWin exchanged and draw
\* unchanged; equal distributions give homeWin = awayWin.
C30_SwappingSidesTransposes ==
  gridPc \in {"markets", "card", "table", "done"} =>
    \E swapped \in {buildCorrectScoreGrid(awayPoisson.probs, homePoisson.probs,
                                          awayPoisson.probs9Plus, homePoisson.probs9Plus)} :
      /\ \A i \in DOMAIN correctScoreGrid.grid : \A j \in DOMAIN correctScoreGrid.grid :
           swapped.grid[i][j] = correctScoreGrid.grid[j][i]
      /\ swapped.homeWin = correctScoreGrid.awayWin
      /\ swapped.awayWin = correctScoreGrid.homeWin
      /\ swapped.draw = correctScoreGrid.draw
      /\ homePoisson = awayPoisson => correctScoreGrid.homeWin = correctScoreGrid.awayWin

\* a grid of two different distributions, both with mass in the tail, whose home side
\* is the likelier winner
C30_Witness ==
  /\ gridPc = "markets" /\ lambdaHome = 16 /\ lambdaAway = 12
  /\ correctScoreGrid.homeWin > correctScoreGrid.awayWin
  /\ correctScoreGrid.grid[MaxGoals + 1][MaxGoals + 1] > 0
  /\ correctScoreGrid.grid[0][1] # correctScoreGrid.grid[1][0]

====
